---- MODULE Spec2Model ----
(***************************************************************************)
(* A model of the psy-k binary codec (LIB archives, OBJ object files,      *)
(* sections, relocation expressions, module metadata), of io::read, of    *)
(* the packed PSY-Q timestamp, of path_to_module_name and                  *)
(* Module::new_from_path, of the linker-script parser of link.rs, and of   *)
(* the text written for a Section and a Module.                            *)
(*                                                                         *)
(* Bytes are the integers 0..255 and a file is a sequence of bytes.  A     *)
(* 32-bit word is kept as the pair <<low 16 bits, high 16 bits>>, because  *)
(* the model checker's integers are 32-bit signed; the little-endian       *)
(* packing of bytes into the two halves and back is computed.              *)
(*                                                                         *)
(* The derive macros of binrw (#[binrw], magic, count, parse_with) are     *)
(* modelled by what they generate: a struct reads its fields in order and  *)
(* fails with the first field's error; an enum tries each variant, and     *)
(* its error is an end-of-file error only if every variant failed with     *)
(* one; `until` keeps the element that ends the loop; `until_eof` ends the *)
(* loop, keeping what it has, on an end-of-file error.                     *)
(***************************************************************************)
EXTENDS Integers, Sequences, FiniteSets, TLC

VARIABLES
    exists,     \* whether the path names a file
    bytes,      \* the content of the file
    gen,        \* how the content was produced (what the producer wrote last)
    pc,         \* "build" | "read" | "written" | "new"
    api,        \* the entry point called: "read" | "read_obj" | "read_lib"
    result,     \* what the entry point returned
    out,        \* what writing the value read produced
    built,      \* the value LIB::new returned, and the modules it was given
    tsPhase,    \* "idle" | "picked" | "decoded" | "encoded"
    tsWord,     \* the packed timestamp <<low half, high half>>
    tsDt,       \* NaiveDateTime::from_psyq_timestamp(tsWord)
    tsSt,       \* SystemTime::from_psyq_timestamp(tsWord)
    tsTz,       \* the local zone's offset from UTC, in seconds
    tsEnc,      \* tsDt re-encoded
    tsEncSt,    \* tsSt re-encoded
    tsAny,      \* a date-time given to to_psyq_timestamp, and the build profile
    tsAnyEnc,   \* what to_psyq_timestamp did with tsAny
    modPhase,   \* "idle" | "path" | "named" | "file" | "built" | "written"
    modPath,    \* the path given, and the parts it was made of
    modName,    \* path_to_module_name(modPath)
    modFile,    \* the content and creation time of the file at modPath
    modBuilt,   \* what Module::new_from_path returned
    modOut,     \* the module written
    lnkPhase,   \* "idle" | "text" | "parsed" | "printed" | "reparsed" |
                \* "line" | "lineParsed" | "pair" | "both"
    lnkText,    \* the expression text given, and the parts it was made of
    lnkParsed,  \* parse_expression(lnkText)
    lnkPrinted, \* the parsed expression, formatted
    lnkAgain,   \* parse_expression(lnkPrinted)
    lnkLine,    \* the script line given
    lnkResult,  \* parse_line(lnkLine)
    lnkPair,    \* two texts that differ in letter case or in blanks only
    lnkBoth,    \* what the parser returned for each of the two
    lnkLit,     \* the integer literal of lnkLine, and where it stands
    lnkNote,    \* the command, the comment and the next line lnkLine was made of
    expPhase,   \* "idle" | "tree" | "written" | "read" | "crafted" | "decoded"
    expTree,    \* the relocation expression given to the writer
    expBytes,   \* what the writer produced for it
    expTail,    \* the bytes that follow it in the stream
    expBack,    \* what the reader made of expBytes followed by expTail
    expChain,   \* the number of branch tags a crafted Patch begins with
    accPhase,   \* "idle" | "section" | "formatted" | "string" | "export" |
                \* "file" | "module" | "shown"
    accSection, \* the section given to the formatter
    accOptions, \* the display options given to the formatter
    accEnvs,    \* the environment of each of two formatting runs
    accTexts,   \* what each of the two runs wrote
    accName,    \* the string given to Export::new
    accExport,  \* what Export::new returned
    accModule,  \* the bytes of a module file, and what the reader made of them
    accShown    \* what name(), created() and the formatter gave for the module

vars == <<exists, bytes, gen, pc, api, result, out, built,
          tsPhase, tsWord, tsDt, tsSt, tsTz, tsEnc, tsEncSt, tsAny, tsAnyEnc,
          modPhase, modPath, modName, modFile, modBuilt, modOut,
          lnkPhase, lnkText, lnkParsed, lnkPrinted, lnkAgain, lnkLine, lnkResult,
          lnkPair, lnkBoth, lnkLit, lnkNote,
          expPhase, expTree, expBytes, expTail, expBack, expChain,
          accPhase, accSection, accOptions, accEnvs, accTexts, accName, accExport,
          accModule, accShown>>

codecVars == <<exists, bytes, gen, pc, api, result, out, built>>
tsVars == <<tsPhase, tsWord, tsDt, tsSt, tsTz, tsEnc, tsEncSt, tsAny, tsAnyEnc>>
modVars == <<modPhase, modPath, modName, modFile, modBuilt, modOut>>
lnkVars == <<lnkPhase, lnkText, lnkParsed, lnkPrinted, lnkAgain, lnkLine, lnkResult,
            lnkPair, lnkBoth, lnkLit, lnkNote>>
expVars == <<expPhase, expTree, expBytes, expTail, expBack, expChain>>
accVars == <<accPhase, accSection, accOptions, accEnvs, accTexts, accName, accExport,
            accModule, accShown>>

----------------------------------------------------------------------------
(* Byte sequences and reader results *)

Drop(B, n) == SubSeq(B, n + 1, Len(B))
Take(B, n) == SubSeq(B, 1, n)

\* A successful read: the value and the bytes left after it.
Ok(v, rest) == [ok |-> TRUE, val |-> v, rest |-> rest, eof |-> FALSE]
\* A failed read; eof is binrw's Error::is_eof().
Err(eof) == [ok |-> FALSE, val |-> <<>>, rest |-> <<>>, eof |-> eof]

\* A field value: its numbers, its raw bytes, its sub-expressions.
FieldVal(n, d, e) == [n |-> n, d |-> d, e |-> e]

MAGIC_LIB == <<76, 73, 66>>
MAGIC_LNK == <<76, 78, 75>>

\* #[brw(magic = ...)]: the bytes are read, then compared.
ReadMagic(m, B) ==
    IF Len(B) < Len(m) THEN Err(TRUE)
    ELSE IF Take(B, Len(m)) = m THEN Ok(m, Drop(B, Len(m)))
    ELSE Err(FALSE)

ReadU8(B) ==
    IF Len(B) < 1 THEN Err(TRUE)
    ELSE Ok(FieldVal(<<B[1]>>, <<>>, <<>>), Drop(B, 1))

ReadU16(B) ==
    IF Len(B) < 2 THEN Err(TRUE)
    ELSE Ok(FieldVal(<<B[1] + 256 * B[2]>>, <<>>, <<>>), Drop(B, 2))

ReadU32(B) ==
    IF Len(B) < 4 THEN Err(TRUE)
    ELSE Ok(FieldVal(<<B[1] + 256 * B[2], B[3] + 256 * B[4]>>, <<>>, <<>>),
            Drop(B, 4))

\* name_size: u8, then #[br(count = name_size)] name: Vec<u8>.
ReadStr(B) ==
    IF Len(B) < 1 THEN Err(TRUE)
    ELSE IF Len(B) < 1 + B[1] THEN Err(TRUE)
    ELSE Ok(FieldVal(<<B[1]>>, SubSeq(B, 2, 1 + B[1]), <<>>), Drop(B, 1 + B[1]))

WriteU8(v) == <<v.n[1]>>
WriteU16(v) == <<v.n[1] % 256, v.n[1] \div 256>>
WriteU32(v) == <<v.n[1] % 256, v.n[1] \div 256, v.n[2] % 256, v.n[2] \div 256>>
\* The length byte is the stored field, not the length of the vector.
WriteStr(v) == <<v.n[1]>> \o v.d

----------------------------------------------------------------------------
(* Code: size: u16, then #[br(count = size)] code: Vec<u8> *)

Code_read(B) ==
    IF Len(B) < 2 THEN Err(TRUE)
    ELSE LET size == B[1] + 256 * B[2] IN
         IF Len(B) < 2 + size THEN Err(TRUE)
         ELSE Ok(FieldVal(<<size>>, SubSeq(B, 3, 2 + size), <<>>), Drop(B, 2 + size))

Code_write(v) == <<v.n[1] % 256, v.n[1] \div 256>> \o v.d

----------------------------------------------------------------------------
(* Dim: an enum whose magics are given with #[br(...)] only, so they are   *)
(* read (as u16) and not written.                                          *)

Dim_read(B) ==
    IF Len(B) < 2 THEN Err(TRUE)
    ELSE IF B[1] + 256 * B[2] = 0 THEN Ok(FieldVal(<<0>>, <<>>, <<>>), Drop(B, 2))
    ELSE IF B[1] + 256 * B[2] = 1
         THEN IF Len(B) < 6 THEN Err(FALSE)
              ELSE Ok(FieldVal(<<1, B[3] + 256 * B[4], B[5] + 256 * B[6]>>, <<>>, <<>>),
                      Drop(B, 6))
    ELSE Err(FALSE)

Dim_write(v) ==
    IF v.n[1] = 0 THEN <<>>
    ELSE <<v.n[2] % 256, v.n[2] \div 256, v.n[3] % 256, v.n[3] \div 256>>

----------------------------------------------------------------------------
(* Expression *)

ExprLeafTags == {0, 2, 4, 6, 8, 10, 12, 14, 16, 18, 20, 22}
ExprBranchTags == {32, 34, 36, 38, 40, 42, 44, 46, 48, 50, 52, 54, 56, 58, 60,
                   62, 64, 66, 68, 70, 72, 74}
ExprTags == ExprLeafTags \cup ExprBranchTags

\* An expression value: its tag, its payload numbers, its sub-expressions.
ExprVal(t, n, kids) == [tag |-> t, n |-> n, kids |-> kids]

\* With a byte present every variant but the one whose magic matches fails
\* with a bad magic, so no error is an end-of-file error; with none present
\* every variant fails at end of file.
RECURSIVE Expression_read(_)

\* A two-operand variant, given its operands as read: Box<Expression> twice.
ExprOperands(t, l, r) ==
    IF ~r.ok THEN Err(FALSE) ELSE Ok(ExprVal(t, <<>>, <<l.val, r.val>>), r.rest)

ExprAfterLeft(t, l) ==
    IF ~l.ok THEN Err(FALSE) ELSE ExprOperands(t, l, Expression_read(l.rest))

ExprVariant(t, R) ==
    IF t = 0
    THEN IF Len(R) < 4 THEN Err(FALSE)
         ELSE Ok(ExprVal(t, <<R[1] + 256 * R[2], R[3] + 256 * R[4]>>, <<>>), Drop(R, 4))
    ELSE IF t \in ExprLeafTags
    THEN IF Len(R) < 2 THEN Err(FALSE)
         ELSE Ok(ExprVal(t, <<R[1] + 256 * R[2]>>, <<>>), Drop(R, 2))
    ELSE IF t \in ExprBranchTags
    THEN ExprAfterLeft(t, Expression_read(R))
    ELSE Err(FALSE)

Expression_read(B) ==
    IF B = <<>> THEN Err(TRUE) ELSE ExprVariant(B[1], Tail(B))

\* a writer that emits the operands of a branch right then left
RECURSIVE Expression_write_swapped(_)
Expression_write_swapped(e) ==
    IF e.tag = 0
    THEN <<e.tag, e.n[1] % 256, e.n[1] \div 256, e.n[2] % 256, e.n[2] \div 256>>
    ELSE IF e.tag \in ExprLeafTags
    THEN <<e.tag, e.n[1] % 256, e.n[1] \div 256>>
    ELSE <<e.tag>> \o Expression_write_swapped(e.kids[2]) \o Expression_write_swapped(e.kids[1])

RECURSIVE Expression_write(_)
Expression_write(e) ==
    IF e.tag = 0
    THEN <<e.tag, e.n[1] % 256, e.n[1] \div 256, e.n[2] % 256, e.n[2] \div 256>>
    ELSE IF e.tag \in ExprLeafTags
    THEN <<e.tag, e.n[1] % 256, e.n[1] \div 256>>
    ELSE <<e.tag>> \o Expression_write(e.kids[1]) \o Expression_write(e.kids[2])

----------------------------------------------------------------------------
(* Section: the payload of each variant, as its fields in order *)

SectionTags == {0, 2, 4, 6, 8, 10, 12, 14, 16, 18, 20, 28, 44, 46, 48, 50, 52,
                56, 58, 60, 74, 76, 78, 80, 82, 84}

SectionFields(t) ==
    CASE t = 0  -> <<>>
      [] t = 2  -> <<"code">>
      [] t = 4  -> <<"u16", "u16">>
      [] t = 6  -> <<"u16">>
      [] t = 8  -> <<"u32">>
      [] t = 10 -> <<"u8", "u16", "expr">>
      [] t = 12 -> <<"u16", "u16", "u32", "str">>
      [] t = 14 -> <<"u16", "str">>
      [] t = 16 -> <<"u16", "u16", "u8", "str">>
      [] t = 18 -> <<"u16", "u32", "str">>
      [] t = 20 -> <<"u16", "u8", "str">>
      [] t = 28 -> <<"u16", "str">>
      [] t = 44 -> <<"u16", "u8">>
      [] t = 46 -> <<"u8">>
      [] t = 48 -> <<"u16", "u16", "u32", "str">>
      [] t = 50 -> <<"u16">>
      [] t = 52 -> <<"u16", "u8">>
      [] t = 56 -> <<"u16", "u32">>
      [] t = 58 -> <<"u16", "u32", "u16">>
      [] t = 60 -> <<"u16">>
      \* mask_offset is an i32: the same four bytes, kept as their bit pattern
      [] t = 74 -> <<"u16", "u32", "u16", "u32", "u16", "u32", "u16", "u32",
                     "u32", "str">>
      [] t = 76 -> <<"u16", "u32", "u32">>
      [] t = 78 -> <<"u16", "u32", "u32">>
      [] t = 80 -> <<"u16", "u32", "u32">>
      [] t = 82 -> <<"u16", "u32", "u16", "u16", "u32", "str">>
      [] t = 84 -> <<"u16", "u32", "u16", "u16", "u32", "dim", "str", "str">>
      [] OTHER  -> <<>>

\* A field of type Expression, as a field value.
ExprField(r) == IF r.ok THEN Ok(FieldVal(<<>>, <<>>, <<r.val>>), r.rest) ELSE r

ReadField(kind, B) ==
    CASE kind = "u8"   -> ReadU8(B)
      [] kind = "u16"  -> ReadU16(B)
      [] kind = "u32"  -> ReadU32(B)
      [] kind = "str"  -> ReadStr(B)
      [] kind = "code" -> Code_read(B)
      [] kind = "dim"  -> Dim_read(B)
      [] kind = "expr" -> ExprField(Expression_read(B))

WriteField(kind, v) ==
    CASE kind = "u8"   -> WriteU8(v)
      [] kind = "u16"  -> WriteU16(v)
      [] kind = "u32"  -> WriteU32(v)
      [] kind = "str"  -> WriteStr(v)
      [] kind = "code" -> Code_write(v)
      [] kind = "dim"  -> Dim_write(v)
      [] kind = "expr" -> Expression_write(v.e[1])

\* The element v before the elements s read after it.
ConsOk(v, s) == IF ~s.ok THEN s ELSE Ok(<<v>> \o s.val, s.rest)

RECURSIVE ReadFields(_, _)

FieldsAfter(kinds, r) ==
    IF ~r.ok THEN r ELSE ConsOk(r.val, ReadFields(Tail(kinds), r.rest))

ReadFields(kinds, B) ==
    IF kinds = <<>> THEN Ok(<<>>, B) ELSE FieldsAfter(kinds, ReadField(kinds[1], B))

RECURSIVE WriteFields(_, _)
WriteFields(kinds, f) ==
    IF kinds = <<>> THEN <<>>
    ELSE WriteField(kinds[1], f[1]) \o WriteFields(Tail(kinds), Tail(f))

SectionVal(t, f) == [tag |-> t, f |-> f]

\* A section reader that passes over a byte that is no tag and reads on.
RECURSIVE Section_read_resync(_)
Section_read_resync(B) ==
    IF B = <<>> THEN Err(TRUE)
    ELSE IF B[1] \notin SectionTags THEN Section_read_resync(Tail(B))
    ELSE IF ReadFields(SectionFields(B[1]), Tail(B)).ok
    THEN Ok(SectionVal(B[1], ReadFields(SectionFields(B[1]), Tail(B)).val),
            ReadFields(SectionFields(B[1]), Tail(B)).rest)
    ELSE Err(FALSE)

\* The enum read: the tag byte selects the variant; a variant that fails
\* after its magic matched leaves an error that is not an end-of-file error,
\* since every other variant failed with a bad magic.
SectionOf(t, r) == IF r.ok THEN Ok(SectionVal(t, r.val), r.rest) ELSE Err(FALSE)

Section_read(B) ==
    IF B = <<>> THEN Err(TRUE)
    ELSE IF B[1] \notin SectionTags THEN Err(FALSE)
    ELSE SectionOf(B[1], ReadFields(SectionFields(B[1]), Tail(B)))

Section_write(s) == <<s.tag>> \o WriteFields(SectionFields(s.tag), s.f)

----------------------------------------------------------------------------
(* OBJ: magic "LNK", version: u8, sections read until NOP, which is kept *)

\* #[br(parse_with = until(|section: &Section| matches!(section, Section::NOP)))]
RECURSIVE ReadSectionsUntilNOP(_)

\* `until` with the element that ends the loop left out of the result.
SectionsAfter_exclusive(r) ==
    IF ~r.ok THEN r
    ELSE IF r.val.tag = 0 THEN Ok(<<>>, r.rest)
    ELSE ConsOk(r.val, ReadSectionsUntilNOP(r.rest))

SectionsAfter(r) ==
    IF ~r.ok THEN r
    ELSE IF r.val.tag = 0 THEN Ok(<<r.val>>, r.rest)
    ELSE ConsOk(r.val, ReadSectionsUntilNOP(r.rest))

ReadSectionsUntilNOP(B) == SectionsAfter(Section_read(B))

ObjVal(v, ss) == [version |-> v, sections |-> ss]

ObjOf(v, ss) == IF ~ss.ok THEN ss ELSE Ok(ObjVal(v, ss.val), ss.rest)

\* version: u8 is read and kept; then the sections.
ObjAfterMagic(m) ==
    IF ~m.ok THEN m
    ELSE IF m.rest = <<>> THEN Err(TRUE)
    ELSE ObjOf(m.rest[1], ReadSectionsUntilNOP(Tail(m.rest)))

OBJ_read(B) == ObjAfterMagic(ReadMagic(MAGIC_LNK, B))

RECURSIVE WriteSections(_)
WriteSections(ss) ==
    IF ss = <<>> THEN <<>> ELSE Section_write(ss[1]) \o WriteSections(Tail(ss))

OBJ_write(o) == MAGIC_LNK \o <<o.version>> \o WriteSections(o.sections)

----------------------------------------------------------------------------
(* Export, ModuleMetadata, Module *)

ExportVal(n, d) == [name_size |-> n, name |-> d]

Export_read(B) ==
    IF Len(B) < 1 THEN Err(TRUE)
    ELSE IF Len(B) < 1 + B[1] THEN Err(TRUE)
    ELSE Ok(ExportVal(B[1], SubSeq(B, 2, 1 + B[1])), Drop(B, 1 + B[1]))

Export_write(e) == <<e.name_size>> \o e.name

\* #[br(parse_with = until(|e| e.name_size == 0))]
RECURSIVE ReadExportsUntilEmpty(_)

ExportsAfter(r) ==
    IF ~r.ok THEN r
    ELSE IF r.val.name_size = 0 THEN Ok(<<r.val>>, r.rest)
    ELSE ConsOk(r.val, ReadExportsUntilEmpty(r.rest))

ReadExportsUntilEmpty(B) == ExportsAfter(Export_read(B))

MetaVal(nm, c, o, s, ex) ==
    [name |-> nm, created |-> c, offset |-> o, size |-> s, exports |-> ex]

\* name: [u8; 8], created: u32, offset: u32, size: u32, exports
MetaOf(nm, c, o, s, ex) ==
    IF ~ex.ok THEN ex ELSE Ok(MetaVal(nm, c.val.n, o.val.n, s.val.n, ex.val), ex.rest)

MetaAfterSize(nm, c, o, s) ==
    IF ~s.ok THEN s ELSE MetaOf(nm, c, o, s, ReadExportsUntilEmpty(s.rest))

MetaAfterOffset(nm, c, o) ==
    IF ~o.ok THEN o ELSE MetaAfterSize(nm, c, o, ReadU32(o.rest))

MetaAfterCreated(nm, c) ==
    IF ~c.ok THEN c ELSE MetaAfterOffset(nm, c, ReadU32(c.rest))

ModuleMetadata_read(B) ==
    IF Len(B) < 8 THEN Err(TRUE) ELSE MetaAfterCreated(Take(B, 8), ReadU32(Drop(B, 8)))

WriteWord(w) == <<w[1] % 256, w[1] \div 256, w[2] % 256, w[2] \div 256>>

RECURSIVE WriteExports(_)
WriteExports(ex) ==
    IF ex = <<>> THEN <<>> ELSE Export_write(ex[1]) \o WriteExports(Tail(ex))

ModuleMetadata_write(md) ==
    md.name \o WriteWord(md.created) \o WriteWord(md.offset) \o WriteWord(md.size)
        \o WriteExports(md.exports)

ModuleVal(md, o) == [metadata |-> md, obj |-> o]

ModuleOf(md, o) == IF ~o.ok THEN o ELSE Ok(ModuleVal(md.val, o.val), o.rest)

ModuleAfterMetadata(md) == IF ~md.ok THEN md ELSE ModuleOf(md, OBJ_read(md.rest))

Module_read(B) == ModuleAfterMetadata(ModuleMetadata_read(B))

Module_write(m) == ModuleMetadata_write(m.metadata) \o OBJ_write(m.obj)

\* Export::name(): a leading 0 byte is shown as '*'; 42 is '*'.
Export_name(e) ==
    IF e.name # <<>> /\ e.name[1] = 0 THEN <<42>> \o Tail(e.name) ELSE e.name

\* The names of all the entries, the last one too.
RECURSIVE exports_unfiltered(_)
exports_unfiltered(ex) ==
    IF ex = <<>> THEN <<>> ELSE <<Export_name(ex[1])>> \o exports_unfiltered(Tail(ex))

\* ModuleMetadata::exports(): the names of the entries whose name is not empty.
RECURSIVE exports(_)
exports(ex) ==
    IF ex = <<>> THEN <<>>
    ELSE IF ex[1].name = <<>> THEN exports(Tail(ex))
    ELSE <<Export_name(ex[1])>> \o exports(Tail(ex))

----------------------------------------------------------------------------
(* LIB: magic "LIB", version: u8, modules until end of file, and the       *)
(* assertion that there is at least one                                    *)

\* #[br(parse_with = until_eof)]: an end-of-file error of an element ends
\* the loop with what was read; any other error fails the read.  A failed
\* element leaves the stream where the element began.
RECURSIVE ReadModulesUntilEof(_)

ModulesAfter(B, r) ==
    IF r.ok THEN ConsOk(r.val, ReadModulesUntilEof(r.rest))
    ELSE IF r.eof THEN Ok(<<>>, B)
    ELSE Err(FALSE)

ReadModulesUntilEof(B) == ModulesAfter(B, Module_read(B))

LibVal(v, ms) == [version |-> v, objs |-> ms]

\* The archive without the assertion on its modules.
LibOf_unasserted(v, ms) == IF ~ms.ok THEN ms ELSE Ok(LibVal(v, ms.val), ms.rest)

\* assert(!objs.is_empty())
LibOf(v, ms) ==
    IF ~ms.ok THEN ms
    ELSE IF ms.val = <<>> THEN Err(FALSE)
    ELSE Ok(LibVal(v, ms.val), ms.rest)

LibAfterMagic(m) ==
    IF ~m.ok THEN m
    ELSE IF m.rest = <<>> THEN Err(TRUE)
    ELSE LibOf(m.rest[1], ReadModulesUntilEof(Tail(m.rest)))

LIB_read(B) == LibAfterMagic(ReadMagic(MAGIC_LIB, B))

LIB_new(objs) == LibVal(1, objs)

RECURSIVE WriteModules(_)
WriteModules(ms) ==
    IF ms = <<>> THEN <<>> ELSE Module_write(ms[1]) \o WriteModules(Tail(ms))

\* The assertion of #[brw(...)] is checked before writing too.
LIB_write(l) ==
    IF l.objs = <<>> THEN [ok |-> FALSE, bytes |-> <<>>]
    ELSE [ok |-> TRUE,
          bytes |-> MAGIC_LIB \o <<l.version>> \o WriteModules(l.objs)]

----------------------------------------------------------------------------
(* io.rs *)

\* What an entry point returns: the kind of value, the value, the bytes the
\* cursor did not consume, and the error.
IoOk(kind, r) ==
    [ok |-> TRUE, kind |-> kind, obj |-> IF kind = "OBJ" THEN r.val ELSE ObjVal(0, <<>>),
     lib |-> IF kind = "LIB" THEN r.val ELSE LibVal(0, <<>>), rest |-> r.rest,
     err |-> ""]
IoErr(e) ==
    [ok |-> FALSE, kind |-> "none", obj |-> ObjVal(0, <<>>), lib |-> LibVal(0, <<>>),
     rest |-> <<>>, err |-> e]

IoOf(kind, r) == IF r.ok THEN IoOk(kind, r) ELSE IoErr("decode")

\* A dispatch on the first two bytes only.
read_two_bytes(e, B) ==
    IF ~e THEN IoErr("File not found")
    ELSE IF Len(B) < 3 THEN IoErr("File too small")
    ELSE IF Take(B, 2) = Take(MAGIC_LIB, 2) THEN IoOf("LIB", LIB_read(B))
    ELSE IF Take(B, 2) = Take(MAGIC_LNK, 2) THEN IoOf("OBJ", OBJ_read(B))
    ELSE IoErr("Unrecognized magic")

read(e, B) ==
    IF ~e THEN IoErr("File not found")
    ELSE IF Len(B) < 3 THEN IoErr("File too small")
    ELSE IF Take(B, 3) = MAGIC_LIB THEN IoOf("LIB", LIB_read(B))
    ELSE IF Take(B, 3) = MAGIC_LNK THEN IoOf("OBJ", OBJ_read(B))
    ELSE IoErr("Unrecognized magic")

read_obj(e, B) ==
    IF ~e THEN IoErr("File not found") ELSE IoOf("OBJ", OBJ_read(B))

read_lib(e, B) ==
    IF ~e THEN IoErr("File not found") ELSE IoOf("LIB", LIB_read(B))

\* obj.write / lib.write on the value an entry point returned
WriteOf(r) ==
    IF r.kind = "OBJ" THEN [ok |-> TRUE, bytes |-> OBJ_write(r.obj)]
    ELSE LIB_write(r.lib)

----------------------------------------------------------------------------
(* The packed timestamp: FromPSYQTimestamp for NaiveDate, NaiveTime,        *)
(* NaiveDateTime and SystemTime.  A u32 is <<low 16 bits, high 16 bits>>.   *)

RECURSIVE BitOr(_, _)
BitOr(a, b) ==
    IF a = 0 THEN b
    ELSE IF b = 0 THEN a
    ELSE (IF a % 2 = 1 \/ b % 2 = 1 THEN 1 ELSE 0) + 2 * BitOr(a \div 2, b \div 2)

\* u32 | u32
Or32(v, w) == <<BitOr(v[1], w[1]), BitOr(v[2], w[2])>>

IsLeap(y) == (y % 4 = 0 /\ y % 100 # 0) \/ y % 400 = 0

DaysInMonth(y, m) ==
    IF m = 2 THEN (IF IsLeap(y) THEN 29 ELSE 28)
    ELSE IF m \in {4, 6, 9, 11} THEN 30
    ELSE 31

\* NaiveDate::from_ymd_opt
from_ymd_opt(y, m, d) ==
    IF m >= 1 /\ m <= 12 /\ d >= 1 /\ d <= DaysInMonth(y, m)
    THEN [some |-> TRUE, y |-> y, mo |-> m, d |-> d]
    ELSE [some |-> FALSE, y |-> 0, mo |-> 0, d |-> 0]

\* A time of day that takes the second 60 too.
from_hms_opt_leap(h, mi, s) ==
    IF h <= 23 /\ mi <= 59 /\ s <= 60
    THEN [some |-> TRUE, h |-> h, mi |-> mi, s |-> s]
    ELSE [some |-> FALSE, h |-> 0, mi |-> 0, s |-> 0]

\* NaiveTime::from_hms_opt
from_hms_opt(h, mi, s) ==
    IF h <= 23 /\ mi <= 59 /\ s <= 59
    THEN [some |-> TRUE, h |-> h, mi |-> mi, s |-> s]
    ELSE [some |-> FALSE, h |-> 0, mi |-> 0, s |-> 0]

NaiveDate_from_psyq_timestamp(t) ==
    from_ymd_opt(((t[1] \div 512) % 128) + 1980, (t[1] \div 32) % 16, t[1] % 32)

NaiveDate_to_psyq_timestamp(dt) ==
    <<BitOr(BitOr(((dt.y - 1980) % 128) * 512, (dt.mo % 16) * 32), dt.d % 32), 0>>

\* `self.year() as u32 - 1980`: the subtraction goes below 0 for the years
\* 0 .. 1979 (a year before 0 becomes a large u32 in the cast).
YearSubtractionUnderflows(dt) == dt.y >= 0 /\ dt.y < 1980

NaiveTime_from_psyq_timestamp(t) ==
    from_hms_opt((t[2] \div 2048) % 32, (t[2] \div 32) % 64, (t[2] % 32) * 2)

NaiveTime_to_psyq_timestamp(dt) ==
    <<0, BitOr(BitOr((dt.h % 32) * 2048, (dt.mi % 64) * 32), dt.s \div 2)>>

DateTimeOf(d, tm) ==
    IF d.some /\ tm.some
    THEN [some |-> TRUE, y |-> d.y, mo |-> d.mo, d |-> d.d, h |-> tm.h, mi |-> tm.mi,
          s |-> tm.s]
    ELSE [some |-> FALSE, y |-> 0, mo |-> 0, d |-> 0, h |-> 0, mi |-> 0, s |-> 0]

NaiveDateTime_from_psyq_timestamp(t) ==
    DateTimeOf(NaiveDate_from_psyq_timestamp(t), NaiveTime_from_psyq_timestamp(t))

NaiveDateTime_to_psyq_timestamp(dt) ==
    Or32(NaiveDate_to_psyq_timestamp(dt), NaiveTime_to_psyq_timestamp(dt))

\* The profiles of a build: arithmetic overflow panics with overflow checks
\* on (the dev and test profiles) and wraps with them off (release).
Builds == {"debug", "release"}

\* date().to_psyq_timestamp() | time().to_psyq_timestamp() under a profile
to_psyq_timestamp_built(build, dt) ==
    IF build = "debug" /\ YearSubtractionUnderflows(dt)
    THEN [panic |-> TRUE, word |-> <<0, 0>>]
    ELSE [panic |-> FALSE, word |-> NaiveDateTime_to_psyq_timestamp(dt)]

\* The days of the years 1 .. y-1 that are leap days.
LeapsBefore(y) == ((y - 1) \div 4) - ((y - 1) \div 100) + ((y - 1) \div 400)
\* The days from 1970-01-01 to the first day of year y.
DaysBeforeYear(y) == 365 * (y - 1970) + LeapsBefore(y) - LeapsBefore(1970)

RECURSIVE DaysBeforeMonth(_, _)
DaysBeforeMonth(y, m) ==
    IF m = 1 THEN 0 ELSE DaysBeforeMonth(y, m - 1) + DaysInMonth(y, m - 1)

\* Utc.from_utc_datetime(&dt).timestamp(), as whole days and seconds of the day
timestamp(dt) ==
    [days |-> DaysBeforeYear(dt.y) + DaysBeforeMonth(dt.y, dt.mo) + dt.d - 1,
     secs |-> dt.h * 3600 + dt.mi * 60 + dt.s]

FirstYear == 1970
LastYear == 2108

YearOfDay(n) ==
    CHOOSE y \in FirstYear .. LastYear : DaysBeforeYear(y) <= n /\ n < DaysBeforeYear(y + 1)

MonthOfDay(y, n) ==
    CHOOSE m \in 1 .. 12 :
        /\ DaysBeforeMonth(y, m) <= n
        /\ n < DaysBeforeMonth(y, m) + DaysInMonth(y, m)

\* The date and time of day of an instant, read in a zone `off` seconds east
\* of UTC.
CivilAt(days, secs, off) ==
    LET total == secs + off
        n == days + (IF total < 0 THEN -1 ELSE IF total >= 86400 THEN 1 ELSE 0)
        sod == (total + 86400) % 86400
        y == YearOfDay(n)
        m == MonthOfDay(y, n - DaysBeforeYear(y))
    IN  [some |-> TRUE, y |-> y, mo |-> m,
         d |-> n - DaysBeforeYear(y) - DaysBeforeMonth(y, m) + 1,
         h |-> sod \div 3600, mi |-> (sod \div 60) % 60, s |-> sod % 60]

\* DateTime::naive_local(): the date and time read in the zone.
naive_local(st, tz) == CivilAt(st.days, st.secs, tz)

\* DateTime::<Local>::from(st).naive_utc(): the zone's offset is attached to
\* the value and naive_utc() leaves it out.
naive_utc(st, tz) == CivilAt(st.days, st.secs, 0)

SystemTime_from_psyq_timestamp(t) ==
    IF NaiveDateTime_from_psyq_timestamp(t).some
    THEN [some |-> TRUE,
          days |-> timestamp(NaiveDateTime_from_psyq_timestamp(t)).days,
          secs |-> timestamp(NaiveDateTime_from_psyq_timestamp(t)).secs]
    ELSE [some |-> FALSE, days |-> 0, secs |-> 0]

SystemTime_to_psyq_timestamp(st, tz) ==
    NaiveDateTime_to_psyq_timestamp(naive_utc(st, tz))

----------------------------------------------------------------------------
(* path_to_module_name.  A path is its UTF-8 bytes; the code points and the *)
(* grapheme clusters are found from the bytes.                              *)

\* The bytes of the code point that a byte begins; 0 for a byte that begins
\* none.
Utf8Width(b) ==
    IF b < 128 THEN 1
    ELSE IF b >= 194 /\ b <= 223 THEN 2
    ELSE IF b >= 224 /\ b <= 239 THEN 3
    ELSE IF b >= 240 /\ b <= 244 THEN 4
    ELSE 0

\* Path::file_name: what follows the last '/' (47).
RECURSIVE file_name(_)
file_name(P) ==
    IF P = <<>> THEN <<>>
    ELSE IF P[Len(P)] = 47 THEN <<>>
    ELSE Append(file_name(Take(P, Len(P) - 1)), P[Len(P)])

\* The place of the first '.' (46) of F at or after place i; 0 if there is none.
RECURSIVE FirstDotFrom(_, _)
FirstDotFrom(F, i) ==
    IF i > Len(F) THEN 0 ELSE IF F[i] = 46 THEN i ELSE FirstDotFrom(F, i + 1)

\* Path::file_prefix: the file name before its first '.', a '.' that begins
\* the file name not being one.
file_prefix(P) ==
    IF FirstDotFrom(file_name(P), 2) = 0 THEN file_name(P)
    ELSE Take(file_name(P), FirstDotFrom(file_name(P), 2) - 1)

to_ascii_uppercase(B) ==
    [i \in 1 .. Len(B) |-> IF B[i] >= 97 /\ B[i] <= 122 THEN B[i] - 32 ELSE B[i]]

is_ascii(B) == \A i \in 1 .. Len(B) : B[i] < 128

\* Whether the code point at offset i (from 0) extends the cluster before it:
\* the combining marks U+0300 .. U+036F, in UTF-8 CC 80 .. CD AF.
IsExtend(B, i) ==
    /\ i + 2 <= Len(B)
    /\ \/ B[i + 1] = 204
       \/ B[i + 1] = 205 /\ B[i + 2] <= 175

\* The byte length of the cluster that begins at offset i: a code point and
\* the code points that extend it.
RECURSIVE ExtendLen(_, _)
ExtendLen(B, i) ==
    IF IsExtend(B, i) THEN 2 + ExtendLen(B, i + 2) ELSE 0

\* A cluster length that stops at the first code point.
ClusterLen_codepoint(B, i) == Utf8Width(B[i + 1])

ClusterLen(B, i) == Utf8Width(B[i + 1]) + ExtendLen(B, i + Utf8Width(B[i + 1]))

\* for (offset, cluster) in prefix_str.grapheme_indices(false) { ... }
RECURSIVE FitSize(_, _, _)
FitSize(B, offset, size) ==
    IF offset >= Len(B) THEN size
    ELSE IF offset > 7 \/ offset + ClusterLen(B, offset) > 8 THEN size
    ELSE FitSize(B, offset + ClusterLen(B, offset), offset + ClusterLen(B, offset))

\* A name padded with NUL bytes.
PadName_nul(B) == B \o [i \in 1 .. 8 - Len(B) |-> 0]

\* module_name: [u8; 8] = [0x20; 8], with B copied to its front
PadName(B) == B \o [i \in 1 .. 8 - Len(B) |-> 32]

NameOfPrefix(prefix) ==
    IF is_ascii(prefix)
    THEN PadName(Take(to_ascii_uppercase(prefix),
                      IF Len(prefix) < 8 THEN Len(prefix) ELSE 8))
    ELSE PadName(Take(to_ascii_uppercase(prefix),
                      FitSize(to_ascii_uppercase(prefix), 0, 0)))

path_to_module_name(P) == NameOfPrefix(file_prefix(P))

----------------------------------------------------------------------------
(* Module::new_from_path: the OBJ is read from the file, its exports are   *)
(* taken as Strings, and the metadata is computed from them and from the   *)
(* file's metadata.                                                        *)

\* The second byte a lead byte of a code point allows.
SecondOk(l, b) ==
    CASE l = 224 -> b >= 160 /\ b <= 191
      [] l = 237 -> b >= 128 /\ b <= 159
      [] l = 240 -> b >= 144 /\ b <= 191
      [] l = 244 -> b >= 128 /\ b <= 143
      [] OTHER   -> b >= 128 /\ b <= 191

\* The continuation bytes from place j on, n at most.
RECURSIVE ContRun(_, _, _)
ContRun(B, j, n) ==
    IF n = 0 \/ j > Len(B) THEN 0
    ELSE IF B[j] < 128 \/ B[j] > 191 THEN 0
    ELSE 1 + ContRun(B, j + 1, n - 1)

\* The bytes after the lead byte at place i that continue its code point.
GoodTail(B, i) ==
    IF Utf8Width(B[i]) < 2 \/ i + 1 > Len(B) THEN 0
    ELSE IF ~SecondOk(B[i], B[i + 1]) THEN 0
    ELSE 1 + ContRun(B, i + 2, Utf8Width(B[i]) - 2)

\* String::from_utf8_lossy: a well-formed code point is kept, and each
\* maximal ill-formed run of a code point's bytes becomes U+FFFD (EF BF BD).
RECURSIVE LossyFrom(_, _)
LossyFrom(B, i) ==
    IF i > Len(B) THEN <<>>
    ELSE IF Utf8Width(B[i]) >= 1 /\ GoodTail(B, i) = Utf8Width(B[i]) - 1
    THEN SubSeq(B, i, i + Utf8Width(B[i]) - 1) \o LossyFrom(B, i + Utf8Width(B[i]))
    ELSE <<239, 191, 189>> \o LossyFrom(B, i + 1 + GoodTail(B, i))

\* A byte that is no continuation byte begins a code point or an ill-formed
\* run, so the text can be cut before it and the halves converted apart.
Cuts(B) == {p \in 2 .. Len(B) : B[p] < 128 \/ B[p] > 191}
OffCentre(B, p) == IF 2 * p > Len(B) THEN 2 * p - Len(B) ELSE Len(B) - 2 * p
MidCut(B) == CHOOSE p \in Cuts(B) : \A q \in Cuts(B) : OffCentre(B, p) <= OffCentre(B, q)

RECURSIVE from_utf8_lossy(_)
from_utf8_lossy(B) ==
    IF Len(B) <= 8 \/ Cuts(B) = {} THEN LossyFrom(B, 1)
    ELSE from_utf8_lossy(Take(B, MidCut(B) - 1)) \o from_utf8_lossy(Drop(B, MidCut(B) - 1))

\* XDEF (12) and XBSS (48) with a name: the fourth field is the name.
IsExport(s) == s.tag \in {12, 48} /\ s.f[4].n[1] > 0

\* OBJ::exports(): xdef.symbol_name() and xbss.name(), in section order
RECURSIVE OBJ_exports(_)
OBJ_exports(ss) ==
    IF ss = <<>> THEN <<>>
    ELSE IF IsExport(ss[1])
    THEN <<from_utf8_lossy(ss[1].f[4].d)>> \o OBJ_exports(Tail(ss))
    ELSE OBJ_exports(Tail(ss))

\* Export::new: name.len() as u8, and the bytes cut at 255
Export_new(name) ==
    ExportVal(Len(name) % 256, Take(name, IF Len(name) < 255 THEN Len(name) ELSE 255))

Export_empty == ExportVal(0, <<>>)

\* obj.exports().into_iter().map(Export::new), then Export::empty()
NewExports(names) ==
    [i \in 1 .. Len(names) + 1 |->
        IF i <= Len(names) THEN Export_new(names[i]) ELSE Export_empty]

\* exports.iter().map(|e| 1 + e.name_size as u32).sum::<u32>()
RECURSIVE SumOfSizes(_)
SumOfSizes(ex) ==
    IF ex = <<>> THEN 0 ELSE 1 + ex[1].name_size + SumOfSizes(Tail(ex))

Word32(n) == <<n % 65536, (n \div 65536) % 65536>>

MetaOfExports(P, f, ex) ==
    MetaVal(path_to_module_name(P), SystemTime_to_psyq_timestamp(f.created, 0),
            Word32(20 + SumOfSizes(ex)),
            Word32(20 + SumOfSizes(ex) + Len(f.bytes)), ex)

\* ModuleMetadata::new_from_path(path, obj)
ModuleMetadata_new_from_path(P, o, f) ==
    MetaOfExports(P, f, NewExports(OBJ_exports(o.sections)))

ModuleOfObj(P, f, r) ==
    IF ~r.ok THEN [ok |-> FALSE, module |-> ModuleVal(MetaVal(<<>>, <<0, 0>>, <<0, 0>>, <<0, 0>>, <<>>), ObjVal(0, <<>>))]
    ELSE [ok |-> TRUE,
          module |-> ModuleVal(ModuleMetadata_new_from_path(P, r.obj, f), r.obj)]

\* Module::new_from_path(path): io::read_obj(path)?, then the metadata
Module_new_from_path(P, f) == ModuleOfObj(P, f, read_obj(f.exists, f.bytes))

----------------------------------------------------------------------------
(* link.rs: the parser of linker scripts.  A text is a sequence of          *)
(* characters, each a string of length 1.  A winnow parser gives a value   *)
(* and the rest of the input, or fails: after ErrMode::Backtrack `alt`     *)
(* tries its next parser and `opt` gives None with the input as it was;    *)
(* ErrMode::Cut ends the parse.                                            *)

POk(v, rest) == [ok |-> TRUE, cut |-> FALSE, val |-> v, rest |-> rest]
PBack == [ok |-> FALSE, cut |-> FALSE, val |-> <<>>, rest |-> <<>>]
PCut == [ok |-> FALSE, cut |-> TRUE, val |-> <<>>, rest |-> <<>>]

cut_err(r) == IF r.ok THEN r ELSE PCut
\* opt(p): Some(v) is <<v>>, None is <<>>
opt(r, I) == IF r.ok THEN POk(<<r.val>>, r.rest) ELSE IF r.cut THEN r ELSE POk(<<>>, I)

LowerLetters == <<"a", "b", "c", "d", "e", "f", "g", "h", "i", "j", "k", "l", "m", "n", "o", "p", "q", "r", "s", "t", "u", "v", "w", "x", "y", "z">>
UpperLetters == <<"A", "B", "C", "D", "E", "F", "G", "H", "I", "J", "K", "L", "M", "N", "O", "P", "Q", "R", "S", "T", "U", "V", "W", "X", "Y", "Z">>
Letters == {LowerLetters[i] : i \in 1 .. 26} \cup {UpperLetters[i] : i \in 1 .. 26}
Digits == {"0", "1", "2", "3", "4", "5", "6", "7", "8", "9"}
HexDigitSeq == <<"0", "1", "2", "3", "4", "5", "6", "7", "8", "9", "a", "b", "c", "d", "e", "f">>
Blank == {" ", "\t"}

to_lowercase(c) ==
    IF \E i \in 1 .. 26 : UpperLetters[i] = c
    THEN LowerLetters[CHOOSE i \in 1 .. 26 : UpperLetters[i] = c]
    ELSE c

\* take_while: the number of leading characters that are in S
Span(I, S) ==
    IF \A i \in 1 .. Len(I) : I[i] \in S THEN Len(I)
    ELSE (CHOOSE i \in 1 .. Len(I) : I[i] \notin S /\ \A j \in 1 .. i - 1 : I[j] \in S) - 1

\* take_while(|c| c != stop)
SpanUntil(I, stop) ==
    IF \A i \in 1 .. Len(I) : I[i] # stop THEN Len(I)
    ELSE (CHOOSE i \in 1 .. Len(I) : I[i] = stop /\ \A j \in 1 .. i - 1 : I[j] # stop) - 1

space0(I) == POk(<<>>, Drop(I, Span(I, Blank)))
space1(I) == IF Span(I, Blank) = 0 THEN PBack ELSE space0(I)

\* a literal
Tag(lit, I) ==
    IF Len(I) >= Len(lit) /\ Take(I, Len(lit)) = lit
    THEN POk(lit, Drop(I, Len(lit)))
    ELSE PBack

Caseless(lit, I) ==
    IF Len(I) >= Len(lit) /\ \A i \in 1 .. Len(lit) : to_lowercase(I[i]) = to_lowercase(lit[i])
    THEN POk(Take(I, Len(lit)), Drop(I, Len(lit)))
    ELSE PBack

parse_file_name(I) ==
    IF SpanUntil(I, "\"") = 0 THEN PBack
    ELSE POk(Take(I, SpanUntil(I, "\"")), Drop(I, SpanUntil(I, "\"")))

SymbolStart == Letters \cup {"_"}
SymbolRest == Letters \cup Digits \cup {"?", "_", "."}

parse_symbol(I) ==
    IF I = <<>> \/ I[1] \notin SymbolStart THEN PBack
    ELSE POk(Take(I, 1 + Span(Tail(I), SymbolRest)), Drop(I, 1 + Span(Tail(I), SymbolRest)))

DigitValue(c) == (CHOOSE i \in 1 .. 16 : HexDigitSeq[i] = to_lowercase(c)) - 1

\* A u64 is kept as its base-16 digits, the most significant first and
\* without leading zeros (0 is <<0>>), because the model checker's integers
\* are 32-bit.
Reverse(v) == [i \in 1 .. Len(v) |-> v[Len(v) + 1 - i]]
Canonical(v) ==
    IF \A i \in 1 .. Len(v) : v[i] = 0 THEN <<0>>
    ELSE Drop(v, (CHOOSE i \in 1 .. Len(v) : v[i] # 0 /\ \A j \in 1 .. i - 1 : v[j] = 0) - 1)

\* v * m + carry on 16-bit limbs, the least significant first
RECURSIVE MulAdd(_, _, _)
MulAdd(limbs, m, carry) ==
    IF limbs = <<>> THEN (IF carry = 0 THEN <<>> ELSE <<carry>>)
    ELSE <<(limbs[1] * m + carry) % 65536>>
             \o MulAdd(Tail(limbs), m, (limbs[1] * m + carry) \div 65536)

\* The value of at most four digits, and the radix to their number.
ValueOfFew(digs, radix) ==
    CASE Len(digs) = 1 -> DigitValue(digs[1])
      [] Len(digs) = 2 -> DigitValue(digs[1]) * radix + DigitValue(digs[2])
      [] Len(digs) = 3 ->
            (DigitValue(digs[1]) * radix + DigitValue(digs[2])) * radix + DigitValue(digs[3])
      [] Len(digs) = 4 ->
            ((DigitValue(digs[1]) * radix + DigitValue(digs[2])) * radix
                + DigitValue(digs[3])) * radix + DigitValue(digs[4])
PowerOfFew(digs, radix) ==
    CASE Len(digs) = 1 -> radix
      [] Len(digs) = 2 -> radix * radix
      [] Len(digs) = 3 -> radix * radix * radix
      [] Len(digs) = 4 -> radix * radix * radix * radix
FirstFew(digs) == Take(digs, IF Len(digs) < 4 THEN Len(digs) ELSE 4)

\* from_str_radix: the digits taken in from the most significant on, up to
\* four of them at a time; a value that has left 64 bits is not multiplied
\* further
RECURSIVE NumberFrom(_, _, _)
NumberFrom(limbs, digs, radix) ==
    IF Len(limbs) > 4 \/ digs = <<>> THEN limbs
    ELSE NumberFrom(MulAdd(limbs, PowerOfFew(FirstFew(digs), radix),
                           ValueOfFew(FirstFew(digs), radix)),
                    Drop(digs, Len(FirstFew(digs))), radix)

\* The base-16 digits of a number given by its 16-bit limbs.
HexDigitsOf(limbs) ==
    Canonical([i \in 1 .. 4 * Len(limbs) |->
                  CASE (i - 1) % 4 = 0 -> limbs[Len(limbs) - ((i - 1) \div 4)] \div 4096
                    [] (i - 1) % 4 = 1 -> (limbs[Len(limbs) - ((i - 1) \div 4)] \div 256) % 16
                    [] (i - 1) % 4 = 2 -> (limbs[Len(limbs) - ((i - 1) \div 4)] \div 16) % 16
                    [] (i - 1) % 4 = 3 -> limbs[Len(limbs) - ((i - 1) \div 4)] % 16])

\* The binary digit that stands r places before the last one.
BitAt(digs, r) == IF r < Len(digs) THEN DigitValue(digs[Len(digs) - r]) ELSE 0
\* In radix 16 the digits are the value's, and in radix 2 each four of them,
\* from the last one on, make one.
NumberIn(digs, radix) ==
    IF radix = 16 THEN Canonical([i \in 1 .. Len(digs) |-> DigitValue(digs[i])])
    ELSE IF radix = 2
    THEN Canonical(Reverse([g \in 1 .. (Len(digs) + 3) \div 4 |->
                               BitAt(digs, 4 * g - 4) + 2 * BitAt(digs, 4 * g - 3)
                                   + 4 * BitAt(digs, 4 * g - 2) + 8 * BitAt(digs, 4 * g - 1)]))
    ELSE HexDigitsOf(NumberFrom(<<>>, digs, radix))

\* u64::MAX written in base 10, 16 and 2
U64MaxDecimal == <<"1", "8", "4", "4", "6", "7", "4", "4", "0", "7", "3", "7", "0", "9", "5", "5", "1", "6", "1", "5">>
U64MaxHex == [i \in 1 .. 16 |-> "f"]
U64MaxBin == [i \in 1 .. 64 |-> "1"]

Significant(digs) == Drop(digs, Span(digs, {"0"}))
\* of two numbers of as many digits, the first is the greater
Exceeds(a, b) ==
    \E i \in 1 .. Len(a) :
        /\ DigitValue(a[i]) > DigitValue(b[i])
        /\ \A j \in 1 .. i - 1 : DigitValue(a[j]) = DigitValue(b[j])
\* the digits are a number above u64::MAX
Overflows(digs, max) ==
    \/ Len(Significant(digs)) > Len(max)
    \/ Len(Significant(digs)) = Len(max) /\ Exceeds(Significant(digs), max)

\* digits, then the conversion: Err(_e) => Err(ErrMode::Cut(..))
DigitsIn(I, S, radix, max) ==
    IF Span(I, S) = 0 THEN PBack
    ELSE IF Overflows(Take(I, Span(I, S)), max) THEN PCut
    ELSE POk(NumberIn(Take(I, Span(I, S)), radix), Drop(I, Span(I, S)))

parse_bin_digits(I) == DigitsIn(I, {"0", "1"}, 2, U64MaxBin)
parse_decimal_digits(I) == DigitsIn(I, Digits, 10, U64MaxDecimal)
parse_hex_digits(I) ==
    DigitsIn(I, Digits \cup {"a", "b", "c", "d", "e", "f", "A", "B", "C", "D", "E", "F"}, 16, U64MaxHex)

\* the prefixed literal without its cut_err: a `$` or `%` that no digit
\* follows lets the caller try its next alternative
parse_prefixed_digits_backtrack(I) ==
    IF I # <<>> /\ I[1] = "$" THEN parse_hex_digits(Tail(I))
    ELSE IF I # <<>> /\ I[1] = "%" THEN parse_bin_digits(Tail(I))
    ELSE PBack

parse_prefixed_digits(I) ==
    IF I # <<>> /\ I[1] = "$" THEN cut_err(parse_hex_digits(Tail(I)))
    ELSE IF I # <<>> /\ I[1] = "%" THEN cut_err(parse_bin_digits(Tail(I)))
    ELSE PBack

IntegerAfterDecimal(I, r) == IF r.ok \/ r.cut THEN r ELSE parse_prefixed_digits(I)
parse_integer_constant(I) == IntegerAfterDecimal(I, parse_decimal_digits(I))

FunctionNames ==
    <<<<"s", "e", "c", "t", "s", "t", "a", "r", "t">>,
      <<"s", "e", "c", "t", "e", "n", "d">>,
      <<"s", "e", "c", "t", "b", "a", "s", "e">>,
      <<"s", "e", "c", "t", "o", "f">>,
      <<"o", "f", "f", "s">>,
      <<"b", "a", "n", "k">>,
      <<"g", "r", "o", "u", "p", "s", "t", "a", "r", "t">>,
      <<"g", "r", "o", "u", "p", "o", "f">>,
      <<"g", "r", "o", "u", "p", "o", "r", "g">>,
      <<"s", "e", "g">>>>

FunctionNameAt(I, i) == Len(I) >= Len(FunctionNames[i]) /\ Take(I, Len(FunctionNames[i])) = FunctionNames[i]

\* the first name of the list that the input begins with
parse_function_name(I) ==
    IF \A i \in 1 .. Len(FunctionNames) : ~FunctionNameAt(I, i) THEN PBack
    ELSE Tag(FunctionNames[CHOOSE i \in 1 .. Len(FunctionNames) :
                              /\ FunctionNameAt(I, i)
                              /\ \A j \in 1 .. i - 1 : ~FunctionNameAt(I, j)], I)

\* enum Expression
Expression_Constant(n) == [k |-> "Constant", n |-> n, s |-> <<>>, op |-> "", kids |-> <<>>]
Expression_Symbol(s) == [k |-> "Symbol", n |-> <<>>, s |-> s, op |-> "", kids |-> <<>>]
Expression_Binary(l, op, r) == [k |-> "Binary", n |-> <<>>, s |-> <<>>, op |-> op, kids |-> <<l, r>>]
Expression_Unary(op, e) == [k |-> "Unary", n |-> <<>>, s |-> <<>>, op |-> op, kids |-> <<e>>]
Expression_Parens(e) == [k |-> "Parens", n |-> <<>>, s |-> <<>>, op |-> "", kids |-> <<e>>]
Expression_Function(name, arg) == [k |-> "Function", n |-> <<>>, s |-> name, op |-> "", kids |-> <<arg>>]

\* the operators in the order parse_binary_op tries them
BinaryOpTokens ==
    <<[text |-> <<"<", "<">>, op |-> "Shl"],
      [text |-> <<">", ">">>, op |-> "Shr"],
      [text |-> <<"=", "=">>, op |-> "Eq"],
      [text |-> <<"!", "=">>, op |-> "Ne"],
      [text |-> <<"<", "=">>, op |-> "Le"],
      [text |-> <<">", "=">>, op |-> "Ge"],
      [text |-> <<"&", "&">>, op |-> "LogAnd"],
      [text |-> <<"|", "|">>, op |-> "LogOr"],
      [text |-> <<"+">>, op |-> "Add"],
      [text |-> <<"-">>, op |-> "Sub"],
      [text |-> <<"*">>, op |-> "Mul"],
      [text |-> <<"/">>, op |-> "Div"],
      [text |-> <<"%">>, op |-> "Mod"],
      [text |-> <<"&">>, op |-> "And"],
      [text |-> <<"|">>, op |-> "Or"],
      [text |-> <<"^">>, op |-> "Xor"],
      [text |-> <<"<">>, op |-> "Lt"],
      [text |-> <<">">>, op |-> "Gt"]>>

BinaryOpAt(I, i) == Len(I) >= Len(BinaryOpTokens[i].text) /\ Take(I, Len(BinaryOpTokens[i].text)) = BinaryOpTokens[i].text
FirstBinaryOp(I) ==
    CHOOSE i \in 1 .. Len(BinaryOpTokens) :
        BinaryOpAt(I, i) /\ \A j \in 1 .. i - 1 : ~BinaryOpAt(I, j)

BinaryOpOf(J) ==
    IF \A i \in 1 .. Len(BinaryOpTokens) : ~BinaryOpAt(J, i) THEN PBack
    ELSE POk(BinaryOpTokens[FirstBinaryOp(J)].op,
             Drop(J, Len(BinaryOpTokens[FirstBinaryOp(J)].text)))

parse_binary_op(I) == BinaryOpOf(Drop(I, Span(I, Blank)))

LOWEST == 0
LOGICAL_OR == 1
LOGICAL_AND == 2
BITWISE_OR == 3
BITWISE_XOR == 4
BITWISE_AND == 5
EQUALITY == 6
COMPARISON == 7
SHIFT == 8
ADDITIVE == 9
MULTIPLICATIVE == 10

\* A table in which + and - bind tighter than * / %.
precedence_additive_first(op) ==
    CASE op = "LogOr" -> LOGICAL_OR
      [] op = "LogAnd" -> LOGICAL_AND
      [] op = "Or" -> BITWISE_OR
      [] op = "Xor" -> BITWISE_XOR
      [] op = "And" -> BITWISE_AND
      [] op \in {"Eq", "Ne"} -> EQUALITY
      [] op \in {"Lt", "Le", "Gt", "Ge"} -> COMPARISON
      [] op \in {"Shl", "Shr"} -> SHIFT
      [] op \in {"Add", "Sub"} -> MULTIPLICATIVE
      [] op \in {"Mul", "Div", "Mod"} -> ADDITIVE

precedence(op) ==
    CASE op = "LogOr" -> LOGICAL_OR
      [] op = "LogAnd" -> LOGICAL_AND
      [] op = "Or" -> BITWISE_OR
      [] op = "Xor" -> BITWISE_XOR
      [] op = "And" -> BITWISE_AND
      [] op \in {"Eq", "Ne"} -> EQUALITY
      [] op \in {"Lt", "Le", "Gt", "Ge"} -> COMPARISON
      [] op \in {"Shl", "Shr"} -> SHIFT
      [] op \in {"Add", "Sub"} -> ADDITIVE
      [] op \in {"Mul", "Div", "Mod"} -> MULTIPLICATIVE

is_left_associative(op) == TRUE

RECURSIVE parse_expression(_)
RECURSIVE parse_unary(_)
RECURSIVE parse_binary_rhs(_, _, _)
RECURSIVE Lookahead(_, _, _)

\* delimited('(', parse_expression, ')')
DelimitedClose(r) ==
    IF ~r.ok THEN r
    ELSE IF r.rest = <<>> \/ r.rest[1] # ")" THEN PBack
    ELSE POk(r.val, Tail(r.rest))
Delimited(I) ==
    IF I = <<>> \/ I[1] # "(" THEN PBack ELSE DelimitedClose(parse_expression(Tail(I)))

FunctionOf(name, d) ==
    IF ~d.ok THEN d ELSE POk(Expression_Function(name, d.val), d.rest)
FunctionCall(nm) == IF ~nm.ok THEN nm ELSE FunctionOf(nm.val, Delimited(nm.rest))

PrimaryAfterSymbol(r) ==
    IF r.ok THEN POk(Expression_Symbol(r.val), r.rest) ELSE IF r.cut THEN r ELSE PBack
PrimaryAfterConstant(J, r) ==
    IF r.ok THEN POk(Expression_Constant(r.val), r.rest)
    ELSE IF r.cut THEN r
    ELSE PrimaryAfterSymbol(parse_symbol(J))
PrimaryAfterParens(J, r) ==
    IF r.ok THEN POk(Expression_Parens(r.val), r.rest)
    ELSE IF r.cut THEN r
    ELSE PrimaryAfterConstant(J, parse_integer_constant(J))
PrimaryAfterCall(J, r) ==
    IF r.ok \/ r.cut THEN r ELSE PrimaryAfterParens(J, Delimited(J))
PrimaryAt(J) == PrimaryAfterCall(J, FunctionCall(parse_function_name(J)))

parse_primary(I) == PrimaryAt(Drop(I, Span(I, Blank)))

\* preceded(op, cut_err(parse_unary)).map(..)
UnaryOf(op, r) == IF ~r.ok THEN PCut ELSE POk(Expression_Unary(op, r.val), r.rest)
UnaryAt(J) ==
    IF J # <<>> /\ J[1] = "-" THEN UnaryOf("Neg", parse_unary(Tail(J)))
    ELSE IF J # <<>> /\ J[1] = "~" THEN UnaryOf("Not", parse_unary(Tail(J)))
    ELSE IF J # <<>> /\ J[1] = "!" THEN UnaryOf("LogNot", parse_unary(Tail(J)))
    ELSE parse_primary(J)

parse_unary(I) == UnaryAt(Drop(I, Span(I, Blank)))

\* the inner loop: while the next operator binds tighter than op, the
\* right-hand side grows
LookAfterRhs(op, r) == IF ~r.ok THEN r ELSE Lookahead(op, r.val, r.rest)
LookAfterOp(op, rhs, I, n) ==
    IF ~n.ok THEN POk(rhs, I)
    ELSE IF \/ precedence(n.val) > precedence(op)
            \/ precedence(n.val) = precedence(op) /\ ~is_left_associative(n.val)
    THEN LookAfterRhs(op, parse_binary_rhs(I, precedence(n.val), rhs))
    ELSE POk(rhs, I)
Lookahead(op, rhs, I) == LookAfterOp(op, rhs, I, parse_binary_op(I))

\* the outer loop
RhsAfterLook(min_precedence, lhs, op, l) ==
    IF ~l.ok THEN l
    ELSE parse_binary_rhs(l.rest, min_precedence, Expression_Binary(lhs, op, l.val))
RhsAfterUnary(min_precedence, lhs, op, u) ==
    IF ~u.ok THEN u
    ELSE RhsAfterLook(min_precedence, lhs, op, Lookahead(op, u.val, u.rest))
RhsAfterOp(I, min_precedence, lhs, o) ==
    IF ~o.ok THEN POk(lhs, I)
    ELSE IF precedence(o.val) < min_precedence THEN POk(lhs, I)
    ELSE RhsAfterUnary(min_precedence, lhs, o.val, parse_unary(o.rest))

parse_binary_rhs(I, min_precedence, lhs) ==
    RhsAfterOp(I, min_precedence, lhs, parse_binary_op(I))

ExpressionAfterUnary(u) ==
    IF ~u.ok THEN u ELSE parse_binary_rhs(u.rest, LOWEST, u.val)

parse_expression(I) == ExpressionAfterUnary(parse_unary(I))

\* impl fmt::Display for BinaryOp
BinaryOp_fmt(op) ==
    CASE op = "Add" -> <<"+">>
      [] op = "Sub" -> <<"-">>
      [] op = "Mul" -> <<"*">>
      [] op = "Div" -> <<"/">>
      [] op = "Mod" -> <<"%">>
      [] op = "And" -> <<"&">>
      [] op = "Or" -> <<"|">>
      [] op = "Xor" -> <<"^">>
      [] op = "Shl" -> <<"<", "<">>
      [] op = "Shr" -> <<">", ">">>
      [] op = "Eq" -> <<"=", "=">>
      [] op = "Ne" -> <<"!", "=">>
      [] op = "Lt" -> <<"<">>
      [] op = "Le" -> <<"<", "=">>
      [] op = "Gt" -> <<">">>
      [] op = "Ge" -> <<">", "=">>
      [] op = "LogAnd" -> <<"&", "&">>
      [] op = "LogOr" -> <<"|", "|">>

\* impl fmt::Display for UnaryOp
UnaryOp_fmt(op) ==
    CASE op = "Neg" -> <<"-">>
      [] op = "Not" -> <<"~">>
      [] op = "LogNot" -> <<"!">>

\* {:x}
LowerHex(n) == [i \in 1 .. Len(n) |-> HexDigitSeq[n[i] + 1]]

\* impl fmt::Display for Expression
RECURSIVE Expression_fmt(_)
Expression_fmt(e) ==
    CASE e.k = "Constant" -> <<"$">> \o LowerHex(e.n)
      [] e.k = "Symbol" -> e.s
      [] e.k = "Binary" ->
            <<"(">> \o Expression_fmt(e.kids[1]) \o <<" ">> \o BinaryOp_fmt(e.op)
                \o <<" ">> \o Expression_fmt(e.kids[2]) \o <<")">>
      [] e.k = "Unary" -> <<"(">> \o UnaryOp_fmt(e.op) \o Expression_fmt(e.kids[1]) \o <<")">>
      [] e.k = "Parens" -> <<"(">> \o Expression_fmt(e.kids[1]) \o <<")">>
      [] e.k = "Function" -> e.s \o <<"(">> \o Expression_fmt(e.kids[1]) \o <<")">>

\* A tuple of parsers run one after the other is a list of steps; a step is
\* a parser and, for a literal, its text.
RECURSIVE RunSteps(_, _)
RECURSIVE Separated(_, _, _)

\* alt(((space0, "=", space0), (space1, "EQU", space1)))
EqualsSign(I) == RunSteps(<<[t |-> "space0", lit |-> <<>>], [t |-> "tag", lit |-> <<"=">>], [t |-> "space0", lit |-> <<>>]>>, I)
EquSign(I) == RunSteps(<<[t |-> "space1", lit |-> <<>>], [t |-> "tag", lit |-> <<"E", "Q", "U">>], [t |-> "space1", lit |-> <<>>]>>, I)
EqualsAfterSign(I, r) == IF r.ok \/ r.cut THEN r ELSE EquSign(I)
EqualsOrEqu(I) == EqualsAfterSign(I, EqualsSign(I))

\* alt((Caseless("on"), Caseless("off"))).map(|s| s.to_lowercase())
OnAfter(I, r) == IF r.ok THEN POk(<<"o", "n">>, r.rest) ELSE Caseless(<<"o", "f", "f">>, I)
OffAfter(r) == IF r.ok THEN POk(<<"o", "f", "f">>, r.rest) ELSE r
OnOrOff(I) == OffAfter(OnAfter(I, Caseless(<<"o", "n">>, I)))

\* the parsers of parse_attribute, in its order
AttributeParsers ==
    <<[k |-> "BSS",
        keep |-> <<>>,
        steps |->
        <<[t |-> "caseless", lit |-> <<"b", "s", "s">>]>>],
      [k |-> "Origin",
        keep |-> <<3>>,
        steps |->
        <<[t |-> "caseless", lit |-> <<"o", "r", "g">>],
          [t |-> "tag", lit |-> <<"(">>],
          [t |-> "integer", lit |-> <<>>],
          [t |-> "tag", lit |-> <<")">>]>>],
      [k |-> "Obj",
        keep |-> <<3>>,
        steps |->
        <<[t |-> "caseless", lit |-> <<"o", "b", "j">>],
          [t |-> "tag", lit |-> <<"(">>],
          [t |-> "opt_integer", lit |-> <<>>],
          [t |-> "tag", lit |-> <<")">>]>>],
      [k |-> "Over",
        keep |-> <<3>>,
        steps |->
        <<[t |-> "caseless", lit |-> <<"o", "v", "e", "r">>],
          [t |-> "tag", lit |-> <<"(">>],
          [t |-> "symbol", lit |-> <<>>],
          [t |-> "tag", lit |-> <<")">>]>>],
      [k |-> "Word",
        keep |-> <<>>,
        steps |->
        <<[t |-> "caseless", lit |-> <<"w", "o", "r", "d">>]>>],
      [k |-> "File",
        keep |-> <<3>>,
        steps |->
        <<[t |-> "caseless", lit |-> <<"f", "i", "l", "e">>],
          [t |-> "tag", lit |-> <<"(", "\"">>],
          [t |-> "file_name", lit |-> <<>>],
          [t |-> "tag", lit |-> <<"\"", ")">>]>>],
      [k |-> "Size",
        keep |-> <<3>>,
        steps |->
        <<[t |-> "caseless", lit |-> <<"s", "i", "z", "e">>],
          [t |-> "tag", lit |-> <<"(">>],
          [t |-> "integer", lit |-> <<>>],
          [t |-> "tag", lit |-> <<")">>]>>]>>

\* The value a parser builds of what its steps gave: the variant and its
\* fields.  The two parsers of a section build the same variant, one without
\* a group and one without attributes; Public keeps whether the word is "on".
Built(p, f) ==
    CASE p.k = "Section" -> [k |-> "Section", f |-> <<f[2], <<>>, f[5]>>]
      [] p.k = "SectionNamed" -> [k |-> "Section", f |-> <<f[4], f[5], <<>>>>]
      [] p.k = "Public" -> [k |-> "Public", f |-> <<f[4] = <<"o", "n">>>>]
      [] OTHER -> [k |-> p.k, f |-> [i \in 1 .. Len(p.keep) |-> f[p.keep[i]]]]

RECURSIVE FirstOf(_, _)
\* The place of the first result that is no backtrack, 0 if there is none.
FirstTaken(rs) ==
    IF \A i \in 1 .. Len(rs) : ~rs[i].ok /\ ~rs[i].cut THEN 0
    ELSE CHOOSE i \in 1 .. Len(rs) :
            /\ rs[i].ok \/ rs[i].cut
            /\ \A j \in 1 .. i - 1 : ~rs[j].ok /\ ~rs[j].cut
\* alt over lists of steps: the first that does not backtrack; the value is
\* what the parser builds of what its steps gave.  A parser changes nothing,
\* so what the parsers after the first taken one would give is of no effect.
FirstAfter(ps, rs, i) ==
    IF i = 0 THEN PBack
    ELSE IF rs[i].ok THEN POk(Built(ps[i], rs[i].val), rs[i].rest)
    ELSE rs[i]
FirstAmong(ps, rs) == FirstAfter(ps, rs, FirstTaken(rs))
FirstOf(ps, I) == FirstAmong(ps, [i \in 1 .. Len(ps) |-> RunSteps(ps[i].steps, I)])

parse_attribute(I) == FirstOf(AttributeParsers, I)

\* an element of a separated list
Element(kind, I) == IF kind = "symbol" THEN parse_symbol(I) ELSE parse_attribute(I)

\* (space0, ',', space0)
Separator(I) == RunSteps(<<[t |-> "space0", lit |-> <<>>], [t |-> "tag", lit |-> <<",">>], [t |-> "space0", lit |-> <<>>]>>, I)

\* separated: after an element, a separator and an element any number of
\* times; a separator that no element follows is not consumed
SeparatedAfterElement(kind, acc, I, r) ==
    IF r.cut THEN r
    ELSE IF ~r.ok THEN POk(acc, I)
    ELSE Separated(kind, Append(acc, r.val), r.rest)
SeparatedAfterSeparator(kind, acc, I, sp) ==
    IF sp.cut THEN sp
    ELSE IF ~sp.ok THEN POk(acc, I)
    ELSE SeparatedAfterElement(kind, acc, I, Element(kind, sp.rest))
Separated(kind, acc, I) == SeparatedAfterSeparator(kind, acc, I, Separator(I))

\* separated(1.., parse_symbol, ..)
SymbolListAfterFirst(r) == IF ~r.ok THEN r ELSE Separated("symbol", <<r.val>>, r.rest)
parse_symbol_list(I) == SymbolListAfterFirst(parse_symbol(I))

\* separated(0.., parse_attribute, ..)
AttributeListAfterFirst(I, r) ==
    IF r.cut THEN r
    ELSE IF ~r.ok THEN POk(<<>>, I)
    ELSE Separated("attribute", <<r.val>>, r.rest)
parse_attribute_list(I) == AttributeListAfterFirst(I, parse_attribute(I))

\* opt((space1, parse_attribute_list)), None giving the empty list
OptionalAttributesAfterSpace(I, sp) ==
    IF ~sp.ok THEN POk(<<>>, I) ELSE parse_attribute_list(sp.rest)
parse_optional_attribute_list(I) == OptionalAttributesAfterSpace(I, space1(I))

\* opt((",", parse_symbol))
GroupAfterComma(I, c) ==
    IF ~c.ok THEN POk(<<>>, I) ELSE opt(parse_symbol(c.rest), I)
OptionalGroup(I) == GroupAfterComma(I, Tag(<<",">>, I))

Step(s, I) ==
    CASE s.t = "space0" -> space0(I)
      [] s.t = "space1" -> space1(I)
      [] s.t = "tag" -> Tag(s.lit, I)
      [] s.t = "caseless" -> Caseless(s.lit, I)
      [] s.t = "symbol" -> parse_symbol(I)
      [] s.t = "integer" -> parse_integer_constant(I)
      [] s.t = "opt_integer" -> opt(parse_integer_constant(I), I)
      [] s.t = "expression" -> parse_expression(I)
      [] s.t = "file_name" -> parse_file_name(I)
      [] s.t = "symbol_list" -> parse_symbol_list(I)
      [] s.t = "attributes" -> parse_optional_attribute_list(I)
      [] s.t = "equals" -> EqualsOrEqu(I)
      [] s.t = "opt_group" -> OptionalGroup(I)
      [] s.t = "on_off" -> OnOrOff(I)
      [] s.t = "to_end_of_line" -> POk(Take(I, SpanUntil(I, "\n")), Drop(I, SpanUntil(I, "\n")))

StepsCons(v, s) == IF ~s.ok THEN s ELSE POk(<<v>> \o s.val, s.rest)
StepsAfter(ss, r) == IF ~r.ok THEN r ELSE StepsCons(r.val, RunSteps(Tail(ss), r.rest))
RunSteps(ss, I) == IF ss = <<>> THEN POk(<<>>, I) ELSE StepsAfter(ss, Step(ss[1], I))

\* the parsers of parse_line, in its order; parse_command_section is its
\* two parsers
CommandParsers ==
    <<[k |-> "Include",
        keep |-> <<5>>,
        steps |->
        <<[t |-> "space0", lit |-> <<>>],
          [t |-> "caseless", lit |-> <<"i", "n", "c", "l", "u", "d", "e">>],
          [t |-> "space1", lit |-> <<>>],
          [t |-> "tag", lit |-> <<"\"">>],
          [t |-> "file_name", lit |-> <<>>],
          [t |-> "tag", lit |-> <<"\"">>]>>],
      [k |-> "IncLib",
        keep |-> <<5>>,
        steps |->
        <<[t |-> "space0", lit |-> <<>>],
          [t |-> "caseless", lit |-> <<"i", "n", "c", "l", "i", "b">>],
          [t |-> "space1", lit |-> <<>>],
          [t |-> "tag", lit |-> <<"\"">>],
          [t |-> "file_name", lit |-> <<>>],
          [t |-> "tag", lit |-> <<"\"">>]>>],
      [k |-> "Origin",
        keep |-> <<4>>,
        steps |->
        <<[t |-> "space0", lit |-> <<>>],
          [t |-> "caseless", lit |-> <<"o", "r", "g">>],
          [t |-> "space1", lit |-> <<>>],
          [t |-> "integer", lit |-> <<>>]>>],
      [k |-> "Workspace",
        keep |-> <<4>>,
        steps |->
        <<[t |-> "space0", lit |-> <<>>],
          [t |-> "caseless", lit |-> <<"w", "o", "r", "k", "s", "p", "a", "c", "e">>],
          [t |-> "space1", lit |-> <<>>],
          [t |-> "integer", lit |-> <<>>]>>],
      [k |-> "Equals",
        keep |-> <<2, 4>>,
        steps |->
        <<[t |-> "space0", lit |-> <<>>],
          [t |-> "symbol", lit |-> <<>>],
          [t |-> "equals", lit |-> <<>>],
          [t |-> "expression", lit |-> <<>>],
          [t |-> "space0", lit |-> <<>>]>>],
      [k |-> "Regs",
        keep |-> <<4, 6>>,
        steps |->
        <<[t |-> "space0", lit |-> <<>>],
          [t |-> "caseless", lit |-> <<"r", "e", "g", "s">>],
          [t |-> "space1", lit |-> <<>>],
          [t |-> "symbol", lit |-> <<>>],
          [t |-> "tag", lit |-> <<"=">>],
          [t |-> "expression", lit |-> <<>>]>>],
      [k |-> "Group",
        keep |-> <<2, 5>>,
        steps |->
        <<[t |-> "space0", lit |-> <<>>],
          [t |-> "symbol", lit |-> <<>>],
          [t |-> "space1", lit |-> <<>>],
          [t |-> "caseless", lit |-> <<"g", "r", "o", "u", "p">>],
          [t |-> "attributes", lit |-> <<>>]>>],
      [k |-> "Section",
        keep |-> <<2, 5>>,
        steps |->
        <<[t |-> "space0", lit |-> <<>>],
          [t |-> "symbol", lit |-> <<>>],
          [t |-> "space1", lit |-> <<>>],
          [t |-> "caseless", lit |-> <<"s", "e", "c", "t", "i", "o", "n">>],
          [t |-> "attributes", lit |-> <<>>]>>],
      [k |-> "SectionNamed",
        keep |-> <<4, 5>>,
        steps |->
        <<[t |-> "space0", lit |-> <<>>],
          [t |-> "caseless", lit |-> <<"s", "e", "c", "t", "i", "o", "n">>],
          [t |-> "space1", lit |-> <<>>],
          [t |-> "symbol", lit |-> <<>>],
          [t |-> "opt_group", lit |-> <<>>]>>],
      [k |-> "Alias",
        keep |-> <<2, 6>>,
        steps |->
        <<[t |-> "space0", lit |-> <<>>],
          [t |-> "symbol", lit |-> <<>>],
          [t |-> "space1", lit |-> <<>>],
          [t |-> "caseless", lit |-> <<"a", "l", "i", "a", "s">>],
          [t |-> "space1", lit |-> <<>>],
          [t |-> "symbol", lit |-> <<>>]>>],
      [k |-> "Unit",
        keep |-> <<4>>,
        steps |->
        <<[t |-> "space0", lit |-> <<>>],
          [t |-> "caseless", lit |-> <<"u", "n", "i", "t">>],
          [t |-> "space1", lit |-> <<>>],
          [t |-> "integer", lit |-> <<>>]>>],
      [k |-> "Global",
        keep |-> <<4>>,
        steps |->
        <<[t |-> "space0", lit |-> <<>>],
          [t |-> "caseless", lit |-> <<"g", "l", "o", "b", "a", "l">>],
          [t |-> "space1", lit |-> <<>>],
          [t |-> "symbol_list", lit |-> <<>>]>>],
      [k |-> "XDef",
        keep |-> <<4>>,
        steps |->
        <<[t |-> "space0", lit |-> <<>>],
          [t |-> "caseless", lit |-> <<"x", "d", "e", "f">>],
          [t |-> "space1", lit |-> <<>>],
          [t |-> "symbol_list", lit |-> <<>>]>>],
      [k |-> "XRef",
        keep |-> <<4>>,
        steps |->
        <<[t |-> "space0", lit |-> <<>>],
          [t |-> "caseless", lit |-> <<"x", "r", "e", "f">>],
          [t |-> "space1", lit |-> <<>>],
          [t |-> "symbol_list", lit |-> <<>>]>>],
      [k |-> "Public",
        keep |-> <<4>>,
        steps |->
        <<[t |-> "space0", lit |-> <<>>],
          [t |-> "caseless", lit |-> <<"p", "u", "b", "l", "i", "c">>],
          [t |-> "space1", lit |-> <<>>],
          [t |-> "on_off", lit |-> <<>>]>>]>>

\* a comment that keeps the blanks after its `;`
parse_comment_with_blanks(I) == RunSteps(<<[t |-> "space0", lit |-> <<>>], [t |-> "tag", lit |-> <<";">>], [t |-> "tag", lit |-> <<>>], [t |-> "to_end_of_line", lit |-> <<>>]>>, I)

\* (space0, ";", space0, take_while(0.., |c| c != '\n'))
parse_comment(I) == RunSteps(<<[t |-> "space0", lit |-> <<>>], [t |-> "tag", lit |-> <<";">>], [t |-> "space0", lit |-> <<>>], [t |-> "to_end_of_line", lit |-> <<>>]>>, I)

LineOf(cmd, I, cm) ==
    IF cm.cut THEN cm
    ELSE IF cm.ok THEN POk([command |-> cmd, comment |-> <<cm.val[4]>>], cm.rest)
    ELSE POk([command |-> cmd, comment |-> <<>>], I)
LineAfterCommand(I, c) ==
    IF c.cut THEN c
    ELSE IF c.ok THEN LineOf(<<c.val>>, c.rest, parse_comment(c.rest))
    ELSE LineOf(<<>>, I, parse_comment(I))

\* opt(alt((parse_command_include, ..))), then opt(parse_comment)
parse_line(I) == LineAfterCommand(I, FirstOf(CommandParsers, I))

----------------------------------------------------------------------------
(* Display.  What is written for a Section is a text as in link.rs, a       *)
(* sequence of characters; what name(), created() and the Display of a      *)
(* Module give is a String, kept as its UTF-8 bytes like every name here.   *)

\* display::CodeFormat and display::Options
CodeFormats == {"None", "Hex", "Disassembly"}
OptionsVal(cf, r) == [code_format |-> cf, recursive |-> r]
Options_default == OptionsVal("None", FALSE)

\* The environment of a process: std::env::var gives Ok for a variable that
\* is set (to Unicode text) and Err for one that is not.
Unset == [set |-> FALSE, text |-> <<>>]
SetTo(t) == [set |-> TRUE, text |-> t]
EnvVal(lc, lang) == [LC_ALL |-> lc, LANG |-> lang]
NoEnv == EnvVal(Unset, Unset)

starts_with(t, p) == Len(t) >= Len(p) /\ Take(t, Len(p)) = p

\* is_en_gb: LC_ALL if it is set, else LANG if it is set, else ""
is_en_gb(env) ==
    starts_with(IF env.LC_ALL.set THEN env.LC_ALL.text
                ELSE IF env.LANG.set THEN env.LANG.text
                ELSE <<>>,
                <<"e", "n", "_", "G", "B">>)

\* A u32 divided by 10, and what is left.
Div10(w) == <<((w[2] % 10) * 65536 + w[1]) \div 10, w[2] \div 10>>
Rem10(w) == ((w[2] % 10) * 65536 + w[1]) % 10

\* "{}" of a u32
RECURSIVE Decimal(_)
Decimal(w) ==
    IF w[2] = 0 /\ w[1] < 10 THEN <<HexDigitSeq[w[1] + 1]>>
    ELSE Decimal(Div10(w)) \o <<HexDigitSeq[Rem10(w) + 1]>>

\* "{:x}" of a u16
RECURSIVE HexOf(_)
HexOf(n) ==
    IF n < 16 THEN <<HexDigitSeq[n + 1]>>
    ELSE HexOf(n \div 16) \o <<HexDigitSeq[(n % 16) + 1]>>

\* Section::fmt_with_options, for NOP, SectionSwitch and BSS.  The options
\* are read for Code only; the environment is what is_en_gb finds.
Section_fmt_with_options(s, options, env) ==
    CASE s.tag = 0 -> <<"0", " ", ":", " ", "E", "n", "d", " ", "o", "f", " ", "f", "i", "l", "e">>
      [] s.tag = 6 -> <<"6", " ", ":", " ", "S", "w", "i", "t", "c", "h", " ", "t", "o", " ", "s", "e", "c", "t", "i", "o", "n", " ">> \o HexOf(s.f[1].n[1])
      [] s.tag = 8 ->
            <<"8", " ", ":", " ">>
                \o (IF is_en_gb(env) THEN <<"U", "n", "i", "n", "i", "t", "i", "a", "l", "i", "s", "e", "d">>
                    ELSE <<"U", "n", "i", "n", "i", "t", "i", "a", "l", "i", "z", "e", "d">>)
                \o <<" ", "d", "a", "t", "a", ",", " ">> \o Decimal(s.f[1].n) \o <<" ", "b", "y", "t", "e", "s">>

\* What a call gave: a String, or a panic of `expect`.
Gave(t) == [panic |-> FALSE, text |-> t]
Panicked == [panic |-> TRUE, text |-> <<>>]

\* u8::is_ascii_whitespace: space, tab, line feed, form feed, carriage return
is_ascii_whitespace(b) == b \in {32, 9, 10, 12, 13}

\* name.iter().rposition(|x| !x.is_ascii_whitespace()), from 1; 0 for None
rposition_not_whitespace(B) ==
    IF \A i \in 1 .. Len(B) : is_ascii_whitespace(B[i]) THEN 0
    ELSE CHOOSE i \in 1 .. Len(B) :
            /\ ~is_ascii_whitespace(B[i])
            /\ \A j \in i + 1 .. Len(B) : is_ascii_whitespace(B[j])

\* ModuleMetadata::name
ModuleMetadata_name(md) ==
    IF rposition_not_whitespace(md.name) = 0 THEN Panicked
    ELSE Gave(from_utf8_lossy(Take(md.name, rposition_not_whitespace(md.name))))

\* "%d", "%m", "%y", "%H", "%M", "%S": two digits; 48 is '0'
TwoDigits(n) == <<48 + ((n % 100) \div 10), 48 + (n % 10)>>

\* format("%d-%m-%y %H:%M:%S"); 45 is '-', 58 is ':'
format_dmy_hms(dt) ==
    TwoDigits(dt.d) \o <<45>> \o TwoDigits(dt.mo) \o <<45>> \o TwoDigits(dt.y) \o <<32>>
        \o TwoDigits(dt.h) \o <<58>> \o TwoDigits(dt.mi) \o <<58>> \o TwoDigits(dt.s)

\* ModuleMetadata::created
ModuleMetadata_created(md) ==
    IF ~NaiveDateTime_from_psyq_timestamp(md.created).some THEN Panicked
    ELSE Gave(format_dmy_hms(NaiveDateTime_from_psyq_timestamp(md.created)))

\* The chars of a String: the bytes that continue no code point.
CharCount(B) == Cardinality({i \in 1 .. Len(B) : B[i] < 128 \/ B[i] > 191})

\* "{:<8}": blanks after the text up to 8 chars
PadLeft8(B) == B \o [i \in 1 .. 8 - CharCount(B) |-> 32]

\* exports().into_iter().map(|e| format!("{e} ")).collect().join("")
RECURSIVE ExportsShown(_)
ExportsShown(names) ==
    IF names = <<>> THEN <<>>
    ELSE from_utf8_lossy(names[1]) \o <<32>> \o ExportsShown(Tail(names))

\* Module::fmt_with_options: "{:<8} {} {}" of name(), created(), exports
Module_fmt_with_options(m, options) ==
    IF ModuleMetadata_name(m.metadata).panic \/ ModuleMetadata_created(m.metadata).panic
    THEN Panicked
    ELSE Gave(PadLeft8(ModuleMetadata_name(m.metadata).text) \o <<32>>
                \o ModuleMetadata_created(m.metadata).text \o <<32>>
                \o ExportsShown(exports(m.metadata.exports)))

NoShown == [name |-> Gave(<<>>), created |-> Gave(<<>>), text |-> Gave(<<>>)]

----------------------------------------------------------------------------
(* The files the entry points are given.  A producer writes a file piece   *)
(* by piece from the on-disk layout (magic, version, module records,       *)
(* sections), may write a byte that is no tag where a tag belongs, may     *)
(* write bytes after the end, and may cut the last module record short.    *)
(* The pieces are written as literal bytes, never through the writers      *)
(* above.                                                                  *)

MaxModules == 2
MaxExports == 2
MaxSections == 2
\* Sections of a file drawn from every variant; the others are plain ones.
MaxWide == 1

Bytes == 0 .. 255
VersionBytes == {1, 2, 3}

SampleField(kind) ==
    CASE kind = "u8"   -> {<<7>>}
      [] kind = "u16"  -> {<<4, 240>>}
      [] kind = "u32"  -> {<<8, 0, 0, 128>>}
      [] kind = "str"  -> {<<0>>, <<2, 102, 110>>}
      [] kind = "code" -> {<<0, 0>>, <<4, 0, 0, 176, 10, 36>>}
      [] kind = "dim"  -> {<<0, 0>>, <<1, 0, 4, 0, 0, 0>>}
      [] kind = "expr" ->
            {<<0, 180, 0, 0, 128>>}
            \cup {<<t, 12, 40>> : t \in ExprLeafTags \ {0}}
            \cup {<<t, 2, 9, 40, 0, 180, 0, 0, 0>> : t \in ExprBranchTags}
            \cup {<<74, 0, 2, 0, 0, 0, 46, 52, 0, 252, 255, 255, 255, 44, 4, 1, 0,
                    0, 34, 0, 0, 0, 22, 13, 40>>}

RECURSIVE SamplePayloads(_)
SamplePayloads(kinds) ==
    IF kinds = <<>> THEN {<<>>}
    ELSE {a \o b : a \in SampleField(kinds[1]), b \in SamplePayloads(Tail(kinds))}

\* Every section variant but NOP, with each of its sample payloads.
ObjSectionSamples ==
    UNION {{<<t>> \o p : p \in SamplePayloads(SectionFields(t))} :
           t \in SectionTags \ {0}}

\* The plain sections: CPU, XDEF, Def2.
PlainSectionSamples ==
    {<<46, 7>>,
     <<12, 1, 0, 0, 240, 0, 0, 0, 0, 4, 101, 120, 105, 116>>,
     <<84, 0, 0, 4, 0, 0, 0, 102, 0, 0, 0, 4, 0, 0, 0, 0, 0, 1, 95, 1, 46>>}

ModuleNames == {<<65, 53, 54, 32, 32, 32, 32, 32>>}
CreatedWords == {<<175, 32, 44, 129>>}
OffsetSample == <<26, 0, 0, 0>>
SizeSample == <<142, 0, 0, 0>>
\* "exit", and a name with a leading 0 byte
ExportNameSamples == {<<101, 120, 105, 116>>, <<0, 65>>}
ExportLists == UNION {[1 .. n -> ExportNameSamples] : n \in 0 .. MaxExports}

RECURSIVE ExportBytes(_)
ExportBytes(el) ==
    IF el = <<>> THEN <<>> ELSE <<Len(el[1])>> \o el[1] \o ExportBytes(Tail(el))

\* Files that are neither: short ones, a magic with nothing after it, and
\* well-formed bodies behind a magic that differs in one byte.
OtherStarts ==
    {<<76>>, <<76, 73>>, <<76, 78>>, <<76, 73, 66>>, <<76, 78, 75>>,
     <<77, 78, 75, 2, 0>>, <<76, 78, 76, 2, 0>>, <<76, 73, 98, 1>>, <<0, 0, 0, 0>>}

BadSectionTags == Bytes \ SectionTags
BadExprTags == Bytes \ ExprTags
\* The bytes tried at every place but the first: odd ones, the gaps of the
\* two tag tables, the first byte past them.
BadSectionSamples == {1, 22, 24, 26, 30, 86, 255}
BadExprSamples == {1, 24, 26, 28, 30, 76, 255}
\* What follows a byte that is no tag: nothing, or well-formed sections.
AfterBadSection == {<<>>, <<0>>, <<46, 7, 0>>}
\* A Patch up to the place of an expression tag: the root, the left operand
\* and the right operand of an Add.
PatchPrefixes == {<<10, 82, 8, 0>>, <<10, 82, 8, 0, 44>>, <<10, 82, 8, 0, 44, 2, 9, 40>>}
AfterBadExpr == {<<>>, <<12, 40, 2, 9, 40, 0>>}
TrailingSamples == {<<0>>, <<46, 7, 0>>, <<12, 1, 0>>}

Gen0 ==
    [kind |-> "none", std |-> FALSE, expect |-> "start", flaw |-> "none", mods |-> 0,
     rec |-> 0, obj |-> 0, tags |-> <<>>, exps |-> <<>>, nsec |-> 0, wide |-> 0]

NoResult == IoErr("none")
NoOut == [ok |-> FALSE, bytes |-> <<>>]
NoBuilt == [set |-> FALSE, given |-> <<>>, lib |-> LibVal(0, <<>>)]
NoDt == [some |-> FALSE, y |-> 0, mo |-> 0, d |-> 0, h |-> 0, mi |-> 0, s |-> 0]
NoSt == [some |-> FALSE, days |-> 0, secs |-> 0]
NoPath == [bytes |-> <<>>, dot |-> FALSE, body |-> <<>>, ext |-> <<>>]
NoFile == [exists |-> FALSE, bytes |-> <<>>, created |-> [days |-> 0, secs |-> 0]]
NoModule == [ok |-> FALSE, module |-> ModuleVal(MetaVal(<<>>, <<0, 0>>, <<0, 0>>, <<0, 0>>, <<>>), ObjVal(0, <<>>))]
NoText == [text |-> <<>>, shape |-> "none", a |-> "", b |-> ""]
NoLit == [lit |-> <<>>, fits |-> FALSE, value |-> <<>>, place |-> "none"]
NoNote == [made |-> FALSE, body |-> <<>>, note |-> <<>>, tail |-> <<>>]
NoPair == [kind |-> "none", why |-> "none", a |-> <<>>, b |-> <<>>]
NoAny == [build |-> "none", dt |-> NoDt]
NoAnyEnc == [panic |-> FALSE, word |-> <<0, 0>>]

Init ==
    /\ exists = TRUE
    /\ bytes = <<>>
    /\ gen = Gen0
    /\ pc = "build"
    /\ api = "none"
    /\ result = NoResult
    /\ out = NoOut
    /\ built = NoBuilt
    /\ tsPhase = "idle"
    /\ tsWord = <<0, 0>>
    /\ tsDt = NoDt
    /\ tsSt = NoSt
    /\ tsTz = 0
    /\ tsEnc = <<0, 0>>
    /\ tsEncSt = <<0, 0>>
    /\ tsAny = NoAny
    /\ tsAnyEnc = NoAnyEnc
    /\ modPhase = "idle"
    /\ modPath = NoPath
    /\ modName = <<>>
    /\ modFile = NoFile
    /\ modBuilt = NoModule
    /\ modOut = <<>>
    /\ lnkPhase = "idle"
    /\ lnkText = NoText
    /\ lnkParsed = PBack
    /\ lnkPrinted = <<>>
    /\ lnkAgain = PBack
    /\ lnkLine = <<>>
    /\ lnkResult = PBack
    /\ lnkPair = NoPair
    /\ lnkBoth = [a |-> PBack, b |-> PBack]
    /\ lnkLit = NoLit
    /\ lnkNote = NoNote
    /\ expPhase = "idle"
    /\ expTree = ExprVal(0, <<0, 0>>, <<>>)
    /\ expBytes = <<>>
    /\ expTail = <<>>
    /\ expBack = Err(FALSE)
    /\ expChain = 0
    /\ accPhase = "idle"
    /\ accSection = SectionVal(0, <<>>)
    /\ accOptions = Options_default
    /\ accEnvs = <<NoEnv, NoEnv>>
    /\ accTexts = <<<<>>, <<>>>>
    /\ accName = <<>>
    /\ accExport = Export_empty
    /\ accModule = [bytes |-> <<>>, read |-> Err(TRUE)]
    /\ accShown = NoShown

Building == pc = "build"

GenMissing ==
    /\ Building /\ gen.expect = "start"
    /\ exists' = FALSE
    /\ gen' = [gen EXCEPT !.expect = "done", !.flaw = "missing"]
    /\ UNCHANGED <<accVars, expVars, bytes, pc, api, result, out, built, tsVars, modVars, lnkVars>>

GenStart ==
    /\ Building /\ gen.expect = "start"
    /\ \E k \in {"LIB", "LNK"}, v \in VersionBytes :
          /\ bytes' = (IF k = "LIB" THEN MAGIC_LIB ELSE MAGIC_LNK) \o <<v>>
          /\ gen' = [gen EXCEPT !.kind = k,
                                !.std = (v = IF k = "LIB" THEN 1 ELSE 2),
                                !.expect = IF k = "LIB" THEN "module" ELSE "section"]
    /\ UNCHANGED <<accVars, expVars, exists, pc, api, result, out, built, tsVars, modVars, lnkVars>>

GenOther ==
    /\ Building /\ gen.expect = "start"
    /\ \E b \in OtherStarts :
          /\ bytes' = b
          /\ gen' = [gen EXCEPT !.kind = "other", !.expect = "done",
                                !.flaw = IF Len(b) < 3 THEN "short" ELSE "magic"]
    /\ UNCHANGED <<accVars, expVars, exists, pc, api, result, out, built, tsVars, modVars, lnkVars>>

GenModuleHead ==
    /\ Building /\ gen.expect = "module"
    /\ Len(gen.exps) < (IF gen.std THEN MaxModules ELSE 1)
    /\ \E nm \in ModuleNames, c \in CreatedWords,
          el \in (IF gen.std THEN ExportLists ELSE {<<>>}) :
          LET meta == nm \o c \o OffsetSample \o SizeSample \o ExportBytes(el) \o <<0>>
          IN  /\ bytes' = bytes \o meta \o MAGIC_LNK \o <<2>>
              /\ gen' = [gen EXCEPT !.rec = Len(bytes),
                                    !.obj = Len(bytes) + Len(meta),
                                    !.exps = Append(gen.exps, el),
                                    !.tags = <<>>,
                                    !.expect = "section"]
    /\ UNCHANGED <<accVars, expVars, exists, pc, api, result, out, built, tsVars, modVars, lnkVars>>

GenSection ==
    /\ Building /\ gen.expect = "section"
    /\ gen.nsec < MaxSections
    /\ \E s \in (IF gen.kind = "LNK" /\ gen.std /\ gen.wide < MaxWide
                THEN ObjSectionSamples \cup PlainSectionSamples
                ELSE PlainSectionSamples) :
          /\ bytes' = bytes \o s
          /\ gen' = [gen EXCEPT !.tags = Append(gen.tags, s[1]),
                                !.nsec = gen.nsec + 1,
                                !.wide = IF s \in PlainSectionSamples THEN gen.wide
                                         ELSE gen.wide + 1]
    /\ UNCHANGED <<accVars, expVars, exists, pc, api, result, out, built, tsVars, modVars, lnkVars>>

GenNOP ==
    /\ Building /\ gen.expect = "section"
    /\ bytes' = bytes \o <<0>>
    /\ gen' = [gen EXCEPT !.tags = Append(gen.tags, 0),
                          !.mods = IF gen.kind = "LIB" THEN gen.mods + 1 ELSE gen.mods,
                          !.expect = IF gen.kind = "LIB" THEN "module" ELSE "end"]
    /\ UNCHANGED <<accVars, expVars, exists, pc, api, result, out, built, tsVars, modVars, lnkVars>>

GenTrailing ==
    /\ Building /\ gen.expect = "end"
    /\ \E t \in TrailingSamples : bytes' = bytes \o t
    /\ gen' = [gen EXCEPT !.expect = "done", !.flaw = "trailing"]
    /\ UNCHANGED <<accVars, expVars, exists, pc, api, result, out, built, tsVars, modVars, lnkVars>>

\* The first section of an object file of the standard version: every byte
\* that is no tag is tried there.
FirstOfObj == gen.kind = "LNK" /\ gen.std /\ gen.nsec = 0

\* A byte that is no section tag, where a section tag belongs.
GenBadSection ==
    /\ Building /\ gen.expect = "section" /\ gen.nsec < MaxSections
    /\ \E b \in (IF FirstOfObj THEN BadSectionTags ELSE BadSectionSamples),
          t \in AfterBadSection : bytes' = bytes \o <<b>> \o t
    /\ gen' = [gen EXCEPT !.expect = "done", !.flaw = "badsection"]
    /\ UNCHANGED <<accVars, expVars, exists, pc, api, result, out, built, tsVars, modVars, lnkVars>>

\* A byte that is no expression tag, where an expression tag belongs.
GenBadExpr ==
    /\ Building /\ gen.expect = "section" /\ gen.nsec < MaxSections
    /\ \E p \in PatchPrefixes, b \in (IF FirstOfObj THEN BadExprTags ELSE BadExprSamples),
          t \in AfterBadExpr :
          bytes' = bytes \o p \o <<b>> \o t
    /\ gen' = [gen EXCEPT !.expect = "done", !.flaw = "badexpr"]
    /\ UNCHANGED <<accVars, expVars, exists, pc, api, result, out, built, tsVars, modVars, lnkVars>>

\* The part of a module record that position p (the length kept) falls in.
Region(p) ==
    IF p - gen.rec < 8 THEN "name"
    ELSE IF p - gen.rec < 20 THEN "words"
    ELSE IF p < gen.obj THEN "exports"
    ELSE IF p < gen.obj + 4 THEN "objhdr"
    ELSE "sections"

\* The file ends inside the last module record.
Truncate ==
    /\ Building /\ gen.kind = "LIB" /\ gen.expect \in {"section", "module"}
    /\ gen.exps # <<>>
    /\ \E p \in gen.rec + 1 .. Len(bytes) - 1 :
          /\ bytes' = Take(bytes, p)
          /\ gen' = [gen EXCEPT !.expect = "done", !.flaw = Region(p),
                                !.mods = Len(gen.exps) - 1,
                                !.exps = Take(gen.exps, Len(gen.exps) - 1),
                                !.tags = <<>>]
    /\ UNCHANGED <<accVars, expVars, exists, pc, api, result, out, built, tsVars, modVars, lnkVars>>

Call(a) ==
    CASE a = "read"     -> read(exists, bytes)
      [] a = "read_obj" -> read_obj(exists, bytes)
      [] a = "read_lib" -> read_lib(exists, bytes)

Read ==
    /\ Building
    /\ \E a \in {"read", "read_obj", "read_lib"} :
          /\ api' = a
          /\ result' = Call(a)
    /\ pc' = "read"
    /\ UNCHANGED <<accVars, expVars, exists, bytes, gen, out, built, tsVars, modVars, lnkVars>>

Write ==
    /\ pc = "read" /\ result.ok
    /\ out' = WriteOf(result)
    /\ pc' = "written"
    /\ UNCHANGED <<accVars, expVars, exists, bytes, gen, api, result, built, tsVars, modVars, lnkVars>>

\* The module lists a caller can make of the modules of an archive it read.
ModuleLists(ms) ==
    UNION {{[i \in 1 .. n |-> ms[f[i]]] : f \in [1 .. n -> 1 .. Len(ms)]} :
           n \in 0 .. Len(ms)}

LibNew ==
    /\ pc = "read" /\ result.ok /\ result.kind = "LIB"
    /\ \E ms \in ModuleLists(result.lib.objs) :
          built' = [set |-> TRUE, given |-> ms, lib |-> LIB_new(ms)]
    /\ pc' = "new"
    /\ UNCHANGED <<accVars, expVars, exists, bytes, gen, api, result, out, tsVars, modVars, lnkVars>>

Next ==
    \/ GenMissing
    \/ GenStart
    \/ GenOther
    \/ GenModuleHead
    \/ GenSection
    \/ GenNOP
    \/ GenTrailing
    \/ GenBadSection
    \/ GenBadExpr
    \/ Truncate
    \/ Read
    \/ Write
    \/ LibNew

Spec == Init /\ [][Next]_vars

----------------------------------------------------------------------------
(* The timestamps the conversions are given: every month and day field,    *)
(* the year fields of 1980, 1996, 2000, 2100 and 2107, and time fields at  *)
(* and beyond the ends of their ranges.                                    *)

YearFields == {0, 16, 20, 120, 127}
MonthFields == 0 .. 15
DayFields == {0, 1, 12, 15, 28, 29, 30, 31}
HourFields == {0, 16, 23, 24}
MinuteFields == {0, 9, 59, 60}
SecondFields == {0, 19, 29, 30}
\* The local zone, in seconds east of UTC.
Zones == {-28800, 0, 19800}

TsPick ==
    /\ tsPhase = "idle"
    /\ \E y \in YearFields, m \in MonthFields, d \in DayFields,
          h \in HourFields, mi \in MinuteFields, sf \in SecondFields :
          tsWord' = <<y * 512 + m * 32 + d, h * 2048 + mi * 32 + sf>>
    /\ \E z \in Zones : tsTz' = z
    /\ tsPhase' = "picked"
    /\ UNCHANGED <<accVars, expVars, codecVars, modVars, lnkVars, tsDt, tsSt, tsEnc, tsEncSt, tsAny, tsAnyEnc>>

TsDecode ==
    /\ tsPhase = "picked"
    /\ tsDt' = NaiveDateTime_from_psyq_timestamp(tsWord)
    /\ tsSt' = SystemTime_from_psyq_timestamp(tsWord)
    /\ tsPhase' = "decoded"
    /\ UNCHANGED <<accVars, expVars, codecVars, modVars, lnkVars, tsWord, tsTz, tsEnc, tsEncSt, tsAny, tsAnyEnc>>

TsEncode ==
    /\ tsPhase = "decoded" /\ tsDt.some /\ tsSt.some
    /\ tsEnc' = NaiveDateTime_to_psyq_timestamp(tsDt)
    /\ tsEncSt' = SystemTime_to_psyq_timestamp(tsSt, tsTz)
    /\ tsPhase' = "encoded"
    /\ UNCHANGED <<accVars, expVars, codecVars, modVars, lnkVars, tsWord, tsTz, tsDt, tsSt, tsAny, tsAnyEnc>>

\* Date-times to_psyq_timestamp can be given: they need not come from a
\* word.  The epoch (the creation time of a file whose times were reset) and
\* years on both sides of 1980 .. 2107.
AnyYears == {-1, 0, 1969, 1970, 1979, 1980, 1996, 2107, 2108, 2235, 2236}
AnyDays == {<<1, 1>>, <<2, 29>>, <<5, 15>>, <<12, 31>>}
AnyTimes == {<<0, 0, 0>>, <<16, 9, 38>>, <<16, 9, 39>>, <<23, 59, 59>>}

TsGive ==
    /\ tsPhase = "idle"
    /\ \E y \in AnyYears, md \in AnyDays, t \in AnyTimes, b \in Builds :
          /\ from_ymd_opt(y, md[1], md[2]).some
          /\ tsAny' = [build |-> b,
                       dt |-> DateTimeOf(from_ymd_opt(y, md[1], md[2]),
                                         from_hms_opt(t[1], t[2], t[3]))]
    /\ tsPhase' = "given"
    /\ UNCHANGED <<accVars, expVars, codecVars, modVars, lnkVars, tsWord, tsTz, tsDt, tsSt, tsEnc, tsEncSt, tsAnyEnc>>

TsEncodeGiven ==
    /\ tsPhase = "given"
    /\ tsAnyEnc' = to_psyq_timestamp_built(tsAny.build, tsAny.dt)
    /\ tsPhase' = "givenEncoded"
    /\ UNCHANGED <<accVars, expVars, codecVars, modVars, lnkVars, tsWord, tsTz, tsDt, tsSt, tsEnc, tsEncSt, tsAny>>

NextTS ==
    \/ TsPick
    \/ TsDecode
    \/ TsEncode
    \/ TsGive
    \/ TsEncodeGiven

SpecTS == Init /\ [][NextTS]_vars

----------------------------------------------------------------------------
(* The paths path_to_module_name is given: a directory or none, a file     *)
(* name that begins with a '.' or not, then clusters that hold no '.',     *)
(* then an extension or none.                                              *)

MaxClusters == 4

\* a, e-acute, a hot beverage (3 bytes), an alien monster (4 bytes), an a and
\* a monster each with the combining mark U+0362, a 9 with two marks
ClusterSamples ==
    {<<97>>, <<195, 169>>, <<226, 152, 149>>, <<240, 159, 145, 190>>,
     <<97, 205, 162>>, <<240, 159, 145, 190, 205, 162>>, <<57, 205, 162, 204, 129>>}
\* "longername", "output": ASCII stems longer and shorter than 8 bytes
LongBodies ==
    {<<<<108>>, <<111>>, <<110>>, <<103>>, <<101>>, <<114>>, <<110>>, <<97>>, <<109>>,
       <<101>>>>,
     <<<<111>>, <<117>>, <<116>>, <<112>>, <<117>>, <<116>>>>}
Bodies ==
    LongBodies \cup UNION {[1 .. n -> ClusterSamples] : n \in 1 .. MaxClusters}
\* none, ".obj", ".o.a"
Extensions == {<<>>, <<46, 111, 98, 106>>, <<46, 111, 46, 97>>}
\* none, "a.b/"
Directories == {<<>>, <<97, 46, 98, 47>>}

RECURSIVE Flatten(_)
Flatten(cs) == IF cs = <<>> THEN <<>> ELSE cs[1] \o Flatten(Tail(cs))

NamePick ==
    /\ modPhase = "idle"
    /\ \E dir \in Directories, dot \in BOOLEAN, body \in Bodies, ext \in Extensions :
          modPath' = [bytes |-> dir \o (IF dot THEN <<46>> ELSE <<>>) \o Flatten(body)
                                    \o ext,
                      dot |-> dot, body |-> body, ext |-> ext]
    /\ modPhase' = "path"
    /\ UNCHANGED <<accVars, expVars, codecVars, tsVars, lnkVars, modName, modFile, modBuilt, modOut>>

NameDerive ==
    /\ modPhase = "path"
    /\ modName' = path_to_module_name(modPath.bytes)
    /\ modPhase' = "named"
    /\ UNCHANGED <<accVars, expVars, codecVars, tsVars, lnkVars, modPath, modFile, modBuilt, modOut>>

(* The OBJ files Module::new_from_path is given: "LNK", version 2, up to   *)
(* MaxObjSections sections, the NOP, and a byte after it or none; a file   *)
(* that is no OBJ; and no file.                                            *)

MaxObjSections == 2

XdefBytes(name) == <<12, 1, 0, 1, 0, 0, 0, 0, 0, Len(name)>> \o name
XbssBytes(name) == <<48, 2, 0, 1, 0, 4, 0, 0, 0, Len(name)>> \o name

\* "e", no name, a byte that is no UTF-8, a code point cut short, 86 bytes
\* that are no UTF-8; "b", a byte that is no UTF-8; a section that is
\* neither (tag 46)
ExportSectionSamples ==
    {XdefBytes(<<101>>), XdefBytes(<<>>), XdefBytes(<<255>>), XdefBytes(<<226, 152>>),
     XdefBytes([i \in 1 .. 86 |-> 255]), XbssBytes(<<98>>), XbssBytes(<<255>>),
     <<46, 7>>}

ObjContents ==
    {MAGIC_LNK \o <<2>> \o Flatten(ss) \o <<0>> \o trail :
        ss \in UNION {[1 .. n -> ExportSectionSamples] : n \in 0 .. MaxObjSections},
        trail \in {<<>>, <<0>>}}
        \cup {MAGIC_LIB \o <<1>>}

\* 1980-01-01 00:00:00 and 1996-05-15 16:09:38, as instants
CreationTimes ==
    {timestamp([y |-> 1980, mo |-> 1, d |-> 1, h |-> 0, mi |-> 0, s |-> 0]),
     timestamp([y |-> 1996, mo |-> 5, d |-> 15, h |-> 16, mi |-> 9, s |-> 38])}

\* "a.b/output.obj" and ".e\u0301.obj"
ObjPaths ==
    {[bytes |-> <<97, 46, 98, 47, 111, 117, 116, 112, 117, 116, 46, 111, 98, 106>>,
      dot |-> FALSE,
      body |-> <<<<111>>, <<117>>, <<116>>, <<112>>, <<117>>, <<116>>>>,
      ext |-> <<46, 111, 98, 106>>],
     [bytes |-> <<46, 101, 204, 129, 46, 111, 98, 106>>, dot |-> TRUE,
      body |-> <<<<101, 204, 129>>>>, ext |-> <<46, 111, 98, 106>>]}

ModPick ==
    /\ modPhase = "idle"
    /\ \E p \in ObjPaths, B \in ObjContents, c \in CreationTimes, e \in BOOLEAN :
          /\ modPath' = p
          /\ modFile' = IF e THEN [exists |-> TRUE, bytes |-> B, created |-> c]
                               ELSE NoFile
    /\ modPhase' = "file"
    /\ UNCHANGED <<accVars, expVars, codecVars, tsVars, lnkVars, modName, modBuilt, modOut>>

ModNew ==
    /\ modPhase = "file"
    /\ modBuilt' = Module_new_from_path(modPath.bytes, modFile)
    /\ modPhase' = "built"
    /\ UNCHANGED <<accVars, expVars, codecVars, tsVars, lnkVars, modPath, modName, modFile, modOut>>

\* module.write(&mut writer) on the module that was built
ModWrite ==
    /\ modPhase = "built"
    /\ modBuilt.ok
    /\ modOut' = Module_write(modBuilt.module)
    /\ modPhase' = "written"
    /\ UNCHANGED <<accVars, expVars, codecVars, tsVars, lnkVars, modPath, modName, modFile, modBuilt>>

NextMod ==
    \/ NamePick
    \/ NameDerive
    \/ ModPick
    \/ ModNew
    \/ ModWrite

SpecMod == Init /\ [][NextMod]_vars

----------------------------------------------------------------------------
(* The expression texts and the script lines the parser is given.          *)

\* x a y b z for every two binary operators, with and without blanks
TripleTexts ==
    {[text |-> <<"x">> \o sp \o BinaryOpTokens[i].text \o sp \o <<"y">> \o sp
                  \o BinaryOpTokens[j].text \o sp \o <<"z">>,
      shape |-> "triple", a |-> BinaryOpTokens[i].op, b |-> BinaryOpTokens[j].op] :
        i \in 1 .. Len(BinaryOpTokens), j \in 1 .. Len(BinaryOpTokens),
        sp \in {<<>>, <<" ">>}}

PairOperands ==
    {<<"x">>,
     <<"1">>,
     <<"(", "y", ")">>,
     <<"s", "e", "g", "(", "x", ")">>,
     <<"-", "x">>}

PairTexts ==
    {[text |-> l \o <<" ">> \o BinaryOpTokens[i].text \o <<" ">> \o r,
      shape |-> "pair", a |-> BinaryOpTokens[i].op, b |-> ""] :
        l \in PairOperands, r \in PairOperands, i \in 1 .. Len(BinaryOpTokens)}

SingleOperands ==
    {<<"x">>,
     <<"1">>,
     <<"$", "f", "f">>,
     <<"$", "F", "F", "F", "F">>,
     <<"%", "1", "0", "1">>,
     <<"(", "x", ")">>,
     <<"(", " ", "x", " ", ")">>,
     <<"s", "e", "g", "(", "x", ")">>,
     <<"s", "e", "c", "t", "s", "t", "a", "r", "t", "(", "t", "e", "x", "t", ")">>,
     <<"b", "a", "n", "k", "(", "1", ")">>,
     <<"-", "x">>,
     <<"~", "x">>,
     <<"!", "x">>,
     <<"-", "(", "x", " ", "+", " ", "4", ")">>,
     <<"f", "o", "o", "(", "1", ")">>,
     <<"S", "E", "C", "T", "S", "T", "A", "R", "T", "(", "t", "e", "x", "t", ")">>,
     <<"s", "e", "c", "t", "o", "f", "x", "(", "1", ")">>,
     <<"s", "i", "z", "e", "(", "1", ")">>,
     <<"s", "e", "g", "m", "e", "n", "t">>,
     <<"$">>,
     <<"x", " ", "+">>,
     <<>>,
     <<" ", " ", "x", " ", " ">>,
     <<"$", "8", "0", "0", "0", " ", "|", " ", "b", "a", "s", "e">>,
     <<"a", ".", "b", "?", "c", "_", "1">>}

SingleTexts == {[text |-> t, shape |-> "single", a |-> "", b |-> ""] : t \in SingleOperands}

ExpressionTexts == TripleTexts \cup PairTexts \cup SingleTexts

LineBodies ==
    {<<>>,
     <<"o", "r", "g", " ", "$", "8", "0", "0", "1", "0", "0", "0", "0">>,
     <<"o", "r", "g", " ", "1", "2", "3", "4">>,
     <<"O", "R", "G", " ", "%", "1", "0", "1", "0">>,
     <<"o", "r", "g", " ", "x", "y", "z">>,
     <<"o", "r", "g", " ", "$", "x", "y", "z">>,
     <<"o", "r", "g">>,
     <<"o", "r", "g", "a", "n", " ", "g", "r", "o", "u", "p">>,
     <<"w", "o", "r", "k", "s", "p", "a", "c", "e", " ", "$", "8", "0", "1", "F", "0", "0", "0", "0">>,
     <<"i", "n", "c", "l", "u", "d", "e", " ", "\"", "m", "a", "i", "n", ".", "o", "b", "j", "\"">>,
     <<"i", "n", "c", "l", "u", "d", "e", " ", "f", "i", "l", "e", ".", "o", "b", "j">>,
     <<"i", "n", "c", "l", "i", "b", " ", "\"", "l", "i", "b", "g", "p", "u", ".", "l", "i", "b", "\"">>,
     <<"i", "n", "c", "l", "u", "d", "e", " ", "\"", "m", "a", "i", "n", ".", "o", "b", "j">>,
     <<"o", "g", "r", " ", "$", "1", "0", "0">>,
     <<"i", "n", "l", "c", "u", "d", "e", " ", "\"", "m", "a", "i", "n", ".", "o", "b", "j", "\"">>,
     <<"u", "n", "i", "t", " ", "1">>,
     <<"u", "n", "i", "t", " ", "o", "n", "e">>,
     <<"p", "u", "b", "l", "i", "c", " ", "o", "n">>,
     <<"p", "u", "b", "l", "i", "c", " ", "O", "F", "F">>,
     <<"p", "u", "b", "l", "i", "c", " ", "m", "a", "y", "b", "e">>,
     <<"g", "l", "o", "b", "a", "l", " ", "a", ",", " ", "b">>,
     <<"x", "d", "e", "f", " ", "a">>,
     <<"x", "r", "e", "f", " ", "a", ",", "b">>,
     <<"x", "r", "e", "f", " ", "a", ",">>,
     <<"r", "e", "g", "s", " ", "p", "c", "=", "E", "N", "T", "R", "Y">>,
     <<"r", "e", "g", "s", " ", "p", "c", " ", "=", " ", "E", "N", "T", "R", "Y">>,
     <<"E", "N", "T", "R", "Y", " ", "=", " ", "$", "8", "0", "0", "1", "0", "0", "0", "0">>,
     <<"E", "N", "T", "R", "Y", " ", "E", "Q", "U", " ", "$", "8", "0", "0", "1", "0", "0", "0", "0">>,
     <<"E", "N", "T", "R", "Y", " ", "e", "q", "u", " ", "$", "8", "0", "0", "1", "0", "0", "0", "0">>,
     <<"E", "N", "T", "R", "Y", " ", "=", " ", "b", "a", "s", "e", " ", "+", " ", "1">>,
     <<"E", "N", "T", "R", "Y", " ", "=">>,
     <<"t", "e", "x", "t", " ", "g", "r", "o", "u", "p">>,
     <<"t", "e", "x", "t", " ", "g", "r", "o", "u", "p", " ", "o", "r", "g", "(", "$", "8", "0", "0", "1", "0", "0", "0", "0", ")", ",", " ", "s", "i", "z", "e", "(", "$", "8", "0", "0", "0", ")">>,
     <<"t", "e", "x", "t", " ", "g", "r", "o", "u", "p", " ", "b", "s", "s", ",", "w", "o", "r", "d">>,
     <<"b", "s", "s", " ", "g", "r", "o", "u", "p", " ", "f", "i", "l", "e", "(", "\"", "a", ".", "o", "b", "j", "\"", ")", ",", "o", "b", "j", "(", ")">>,
     <<"t", "e", "x", "t", " ", "g", "r", "o", "u", "p", " ", "o", "r", "g", "(", "8", "0", "0", "1", "0", "0", "0", "0", ")">>,
     <<"t", "e", "x", "t", " ", "g", "r", "o", "u", "p", " ", "o", "r", "g", "(", "x", "y", "z", ")">>,
     <<"o", "v", "l", " ", "g", "r", "o", "u", "p", " ", "o", "v", "e", "r", "(", "m", "a", "i", "n", ")">>,
     <<"a", "n", "i", "m", " ", "s", "e", "c", "t", "i", "o", "n">>,
     <<"a", "n", "i", "m", " ", "s", "e", "c", "t", "i", "o", "n", " ", "b", "s", "s">>,
     <<"s", "e", "c", "t", "i", "o", "n", " ", "a", "n", "i", "m">>,
     <<"s", "e", "c", "t", "i", "o", "n", " ", "a", "n", "i", "m", ",", "s", "q", "u", "a", "r", "e", "s">>,
     <<".", "t", "e", "x", "t", " ", "s", "e", "c", "t", "i", "o", "n", " ", "t", "e", "x", "t", ",", " ", "w", "o", "r", "d">>,
     <<"_", "s", "t", "a", "r", "t", " ", "a", "l", "i", "a", "s", " ", "E", "N", "T", "R", "Y">>,
     <<"u", "n", "i", "t", " ", "1", " ", "2">>,
     <<"o", "r", "g", " ", "1", "2", "3", "4", " ", "o", "r", "g", " ", "5">>}
        \cup {<<"v", " ", "=", " ">> \o t : t \in SingleOperands}

Lines ==
    {pre \o body \o post :
        pre \in {<<>>, <<" ", " ">>}, body \in LineBodies,
        post \in {<<>>, <<" ">>, <<" ", ";", " ", "n", "o", "t", "e">>, <<";">>}}

\* A text as its tokens: each with the blanks that must precede it, and
\* whether it is a keyword.
CaseTemplates ==
    {[kind |-> "line", pieces |-> <<[x |-> <<"i", "n", "c", "l", "u", "d", "e">>, kw |-> TRUE, gap |-> <<>>],
         [x |-> <<"\"", "a", ".", "o", "b", "j", "\"">>, kw |-> FALSE, gap |-> <<" ">>]>>],
     [kind |-> "line", pieces |-> <<[x |-> <<"i", "n", "c", "l", "i", "b">>, kw |-> TRUE, gap |-> <<>>],
         [x |-> <<"\"", "l", ".", "l", "i", "b", "\"">>, kw |-> FALSE, gap |-> <<" ">>]>>],
     [kind |-> "line", pieces |-> <<[x |-> <<"o", "r", "g">>, kw |-> TRUE, gap |-> <<>>],
         [x |-> <<"$", "1", "0", "0">>, kw |-> FALSE, gap |-> <<" ">>]>>],
     [kind |-> "line", pieces |-> <<[x |-> <<"w", "o", "r", "k", "s", "p", "a", "c", "e">>, kw |-> TRUE, gap |-> <<>>],
         [x |-> <<"1">>, kw |-> FALSE, gap |-> <<" ">>]>>],
     [kind |-> "line", pieces |-> <<[x |-> <<"x">>, kw |-> FALSE, gap |-> <<>>],
         [x |-> <<"e", "q", "u">>, kw |-> TRUE, gap |-> <<" ">>],
         [x |-> <<"1">>, kw |-> FALSE, gap |-> <<" ">>]>>],
     [kind |-> "line", pieces |-> <<[x |-> <<"r", "e", "g", "s">>, kw |-> TRUE, gap |-> <<>>],
         [x |-> <<"p", "c">>, kw |-> FALSE, gap |-> <<" ">>],
         [x |-> <<"=">>, kw |-> FALSE, gap |-> <<>>],
         [x |-> <<"x">>, kw |-> FALSE, gap |-> <<>>]>>],
     [kind |-> "line", pieces |-> <<[x |-> <<"t">>, kw |-> FALSE, gap |-> <<>>],
         [x |-> <<"g", "r", "o", "u", "p">>, kw |-> TRUE, gap |-> <<" ">>]>>],
     [kind |-> "line", pieces |-> <<[x |-> <<"t">>, kw |-> FALSE, gap |-> <<>>],
         [x |-> <<"s", "e", "c", "t", "i", "o", "n">>, kw |-> TRUE, gap |-> <<" ">>]>>],
     [kind |-> "line", pieces |-> <<[x |-> <<"s", "e", "c", "t", "i", "o", "n">>, kw |-> TRUE, gap |-> <<>>],
         [x |-> <<"t">>, kw |-> FALSE, gap |-> <<" ">>]>>],
     [kind |-> "line", pieces |-> <<[x |-> <<"a">>, kw |-> FALSE, gap |-> <<>>],
         [x |-> <<"a", "l", "i", "a", "s">>, kw |-> TRUE, gap |-> <<" ">>],
         [x |-> <<"b">>, kw |-> FALSE, gap |-> <<" ">>]>>],
     [kind |-> "line", pieces |-> <<[x |-> <<"u", "n", "i", "t">>, kw |-> TRUE, gap |-> <<>>],
         [x |-> <<"1">>, kw |-> FALSE, gap |-> <<" ">>]>>],
     [kind |-> "line", pieces |-> <<[x |-> <<"g", "l", "o", "b", "a", "l">>, kw |-> TRUE, gap |-> <<>>],
         [x |-> <<"a">>, kw |-> FALSE, gap |-> <<" ">>]>>],
     [kind |-> "line", pieces |-> <<[x |-> <<"x", "d", "e", "f">>, kw |-> TRUE, gap |-> <<>>],
         [x |-> <<"a">>, kw |-> FALSE, gap |-> <<" ">>]>>],
     [kind |-> "line", pieces |-> <<[x |-> <<"x", "r", "e", "f">>, kw |-> TRUE, gap |-> <<>>],
         [x |-> <<"a">>, kw |-> FALSE, gap |-> <<" ">>]>>],
     [kind |-> "line", pieces |-> <<[x |-> <<"p", "u", "b", "l", "i", "c">>, kw |-> TRUE, gap |-> <<>>],
         [x |-> <<"o", "n">>, kw |-> TRUE, gap |-> <<" ">>]>>],
     [kind |-> "line", pieces |-> <<[x |-> <<"p", "u", "b", "l", "i", "c">>, kw |-> TRUE, gap |-> <<>>],
         [x |-> <<"o", "f", "f">>, kw |-> TRUE, gap |-> <<" ">>]>>],
     [kind |-> "line", pieces |-> <<[x |-> <<"t">>, kw |-> FALSE, gap |-> <<>>],
         [x |-> <<"g", "r", "o", "u", "p">>, kw |-> FALSE, gap |-> <<" ">>],
         [x |-> <<"b", "s", "s">>, kw |-> TRUE, gap |-> <<" ">>]>>],
     [kind |-> "line", pieces |-> <<[x |-> <<"t">>, kw |-> FALSE, gap |-> <<>>],
         [x |-> <<"g", "r", "o", "u", "p">>, kw |-> FALSE, gap |-> <<" ">>],
         [x |-> <<"o", "r", "g">>, kw |-> TRUE, gap |-> <<" ">>],
         [x |-> <<"(">>, kw |-> FALSE, gap |-> <<>>],
         [x |-> <<"$", "1", "0", "0">>, kw |-> FALSE, gap |-> <<>>],
         [x |-> <<")">>, kw |-> FALSE, gap |-> <<>>]>>],
     [kind |-> "line", pieces |-> <<[x |-> <<"t">>, kw |-> FALSE, gap |-> <<>>],
         [x |-> <<"g", "r", "o", "u", "p">>, kw |-> FALSE, gap |-> <<" ">>],
         [x |-> <<"o", "b", "j">>, kw |-> TRUE, gap |-> <<" ">>],
         [x |-> <<"(">>, kw |-> FALSE, gap |-> <<>>],
         [x |-> <<"1">>, kw |-> FALSE, gap |-> <<>>],
         [x |-> <<")">>, kw |-> FALSE, gap |-> <<>>]>>],
     [kind |-> "line", pieces |-> <<[x |-> <<"t">>, kw |-> FALSE, gap |-> <<>>],
         [x |-> <<"g", "r", "o", "u", "p">>, kw |-> FALSE, gap |-> <<" ">>],
         [x |-> <<"o", "v", "e", "r">>, kw |-> TRUE, gap |-> <<" ">>],
         [x |-> <<"(">>, kw |-> FALSE, gap |-> <<>>],
         [x |-> <<"m">>, kw |-> FALSE, gap |-> <<>>],
         [x |-> <<")">>, kw |-> FALSE, gap |-> <<>>]>>],
     [kind |-> "line", pieces |-> <<[x |-> <<"t">>, kw |-> FALSE, gap |-> <<>>],
         [x |-> <<"g", "r", "o", "u", "p">>, kw |-> FALSE, gap |-> <<" ">>],
         [x |-> <<"w", "o", "r", "d">>, kw |-> TRUE, gap |-> <<" ">>]>>],
     [kind |-> "line", pieces |-> <<[x |-> <<"t">>, kw |-> FALSE, gap |-> <<>>],
         [x |-> <<"g", "r", "o", "u", "p">>, kw |-> FALSE, gap |-> <<" ">>],
         [x |-> <<"f", "i", "l", "e">>, kw |-> TRUE, gap |-> <<" ">>],
         [x |-> <<"(">>, kw |-> FALSE, gap |-> <<>>],
         [x |-> <<"\"", "a", "\"">>, kw |-> FALSE, gap |-> <<>>],
         [x |-> <<")">>, kw |-> FALSE, gap |-> <<>>]>>],
     [kind |-> "line", pieces |-> <<[x |-> <<"t">>, kw |-> FALSE, gap |-> <<>>],
         [x |-> <<"g", "r", "o", "u", "p">>, kw |-> FALSE, gap |-> <<" ">>],
         [x |-> <<"s", "i", "z", "e">>, kw |-> TRUE, gap |-> <<" ">>],
         [x |-> <<"(">>, kw |-> FALSE, gap |-> <<>>],
         [x |-> <<"1">>, kw |-> FALSE, gap |-> <<>>],
         [x |-> <<")">>, kw |-> FALSE, gap |-> <<>>]>>],
     [kind |-> "expression", pieces |-> <<[x |-> <<"s", "e", "c", "t", "s", "t", "a", "r", "t">>, kw |-> TRUE, gap |-> <<>>],
         [x |-> <<"(">>, kw |-> FALSE, gap |-> <<>>],
         [x |-> <<"t">>, kw |-> FALSE, gap |-> <<>>],
         [x |-> <<")">>, kw |-> FALSE, gap |-> <<>>]>>],
     [kind |-> "expression", pieces |-> <<[x |-> <<"s", "e", "c", "t", "e", "n", "d">>, kw |-> TRUE, gap |-> <<>>],
         [x |-> <<"(">>, kw |-> FALSE, gap |-> <<>>],
         [x |-> <<"t">>, kw |-> FALSE, gap |-> <<>>],
         [x |-> <<")">>, kw |-> FALSE, gap |-> <<>>]>>],
     [kind |-> "expression", pieces |-> <<[x |-> <<"s", "e", "c", "t", "b", "a", "s", "e">>, kw |-> TRUE, gap |-> <<>>],
         [x |-> <<"(">>, kw |-> FALSE, gap |-> <<>>],
         [x |-> <<"t">>, kw |-> FALSE, gap |-> <<>>],
         [x |-> <<")">>, kw |-> FALSE, gap |-> <<>>]>>],
     [kind |-> "expression", pieces |-> <<[x |-> <<"s", "e", "c", "t", "o", "f">>, kw |-> TRUE, gap |-> <<>>],
         [x |-> <<"(">>, kw |-> FALSE, gap |-> <<>>],
         [x |-> <<"t">>, kw |-> FALSE, gap |-> <<>>],
         [x |-> <<")">>, kw |-> FALSE, gap |-> <<>>]>>],
     [kind |-> "expression", pieces |-> <<[x |-> <<"o", "f", "f", "s">>, kw |-> TRUE, gap |-> <<>>],
         [x |-> <<"(">>, kw |-> FALSE, gap |-> <<>>],
         [x |-> <<"t">>, kw |-> FALSE, gap |-> <<>>],
         [x |-> <<")">>, kw |-> FALSE, gap |-> <<>>]>>],
     [kind |-> "expression", pieces |-> <<[x |-> <<"b", "a", "n", "k">>, kw |-> TRUE, gap |-> <<>>],
         [x |-> <<"(">>, kw |-> FALSE, gap |-> <<>>],
         [x |-> <<"t">>, kw |-> FALSE, gap |-> <<>>],
         [x |-> <<")">>, kw |-> FALSE, gap |-> <<>>]>>],
     [kind |-> "expression", pieces |-> <<[x |-> <<"g", "r", "o", "u", "p", "s", "t", "a", "r", "t">>, kw |-> TRUE, gap |-> <<>>],
         [x |-> <<"(">>, kw |-> FALSE, gap |-> <<>>],
         [x |-> <<"t">>, kw |-> FALSE, gap |-> <<>>],
         [x |-> <<")">>, kw |-> FALSE, gap |-> <<>>]>>],
     [kind |-> "expression", pieces |-> <<[x |-> <<"g", "r", "o", "u", "p", "o", "f">>, kw |-> TRUE, gap |-> <<>>],
         [x |-> <<"(">>, kw |-> FALSE, gap |-> <<>>],
         [x |-> <<"t">>, kw |-> FALSE, gap |-> <<>>],
         [x |-> <<")">>, kw |-> FALSE, gap |-> <<>>]>>],
     [kind |-> "expression", pieces |-> <<[x |-> <<"g", "r", "o", "u", "p", "o", "r", "g">>, kw |-> TRUE, gap |-> <<>>],
         [x |-> <<"(">>, kw |-> FALSE, gap |-> <<>>],
         [x |-> <<"t">>, kw |-> FALSE, gap |-> <<>>],
         [x |-> <<")">>, kw |-> FALSE, gap |-> <<>>]>>],
     [kind |-> "expression", pieces |-> <<[x |-> <<"s", "e", "g">>, kw |-> TRUE, gap |-> <<>>],
         [x |-> <<"(">>, kw |-> FALSE, gap |-> <<>>],
         [x |-> <<"t">>, kw |-> FALSE, gap |-> <<>>],
         [x |-> <<")">>, kw |-> FALSE, gap |-> <<>>]>>]}

BlankTemplates ==
    {[kind |-> "expression", pieces |-> <<[x |-> <<"1">>, kw |-> FALSE, gap |-> <<>>],
         [x |-> <<"+">>, kw |-> FALSE, gap |-> <<>>],
         [x |-> <<"2">>, kw |-> FALSE, gap |-> <<>>]>>],
     [kind |-> "expression", pieces |-> <<[x |-> <<"x">>, kw |-> FALSE, gap |-> <<>>],
         [x |-> <<"<", "<">>, kw |-> FALSE, gap |-> <<>>],
         [x |-> <<"1">>, kw |-> FALSE, gap |-> <<>>]>>],
     [kind |-> "expression", pieces |-> <<[x |-> <<"a">>, kw |-> FALSE, gap |-> <<>>],
         [x |-> <<"&", "&">>, kw |-> FALSE, gap |-> <<>>],
         [x |-> <<"b">>, kw |-> FALSE, gap |-> <<>>],
         [x |-> <<"|", "|">>, kw |-> FALSE, gap |-> <<>>],
         [x |-> <<"c">>, kw |-> FALSE, gap |-> <<>>]>>],
     [kind |-> "expression", pieces |-> <<[x |-> <<"(">>, kw |-> FALSE, gap |-> <<>>],
         [x |-> <<"x">>, kw |-> FALSE, gap |-> <<>>],
         [x |-> <<")">>, kw |-> FALSE, gap |-> <<>>]>>],
     [kind |-> "expression", pieces |-> <<[x |-> <<"(">>, kw |-> FALSE, gap |-> <<>>],
         [x |-> <<"x">>, kw |-> FALSE, gap |-> <<>>],
         [x |-> <<"+">>, kw |-> FALSE, gap |-> <<>>],
         [x |-> <<"1">>, kw |-> FALSE, gap |-> <<>>],
         [x |-> <<")">>, kw |-> FALSE, gap |-> <<>>],
         [x |-> <<"*">>, kw |-> FALSE, gap |-> <<>>],
         [x |-> <<"2">>, kw |-> FALSE, gap |-> <<>>]>>],
     [kind |-> "expression", pieces |-> <<[x |-> <<"-">>, kw |-> FALSE, gap |-> <<>>],
         [x |-> <<"x">>, kw |-> FALSE, gap |-> <<>>]>>],
     [kind |-> "expression", pieces |-> <<[x |-> <<"~">>, kw |-> FALSE, gap |-> <<>>],
         [x |-> <<"x">>, kw |-> FALSE, gap |-> <<>>]>>],
     [kind |-> "expression", pieces |-> <<[x |-> <<"!">>, kw |-> FALSE, gap |-> <<>>],
         [x |-> <<"x">>, kw |-> FALSE, gap |-> <<>>]>>],
     [kind |-> "expression", pieces |-> <<[x |-> <<"1">>, kw |-> FALSE, gap |-> <<>>],
         [x |-> <<"-">>, kw |-> FALSE, gap |-> <<>>],
         [x |-> <<"-">>, kw |-> FALSE, gap |-> <<>>],
         [x |-> <<"x">>, kw |-> FALSE, gap |-> <<>>]>>],
     [kind |-> "expression", pieces |-> <<[x |-> <<"s", "e", "g">>, kw |-> FALSE, gap |-> <<>>],
         [x |-> <<"(">>, kw |-> FALSE, gap |-> <<>>],
         [x |-> <<"x">>, kw |-> FALSE, gap |-> <<>>],
         [x |-> <<")">>, kw |-> FALSE, gap |-> <<>>]>>],
     [kind |-> "line", pieces |-> <<[x |-> <<"r", "e", "g", "s">>, kw |-> FALSE, gap |-> <<>>],
         [x |-> <<"p", "c">>, kw |-> FALSE, gap |-> <<" ">>],
         [x |-> <<"=">>, kw |-> FALSE, gap |-> <<>>],
         [x |-> <<"E", "N", "T", "R", "Y">>, kw |-> FALSE, gap |-> <<>>]>>],
     [kind |-> "line", pieces |-> <<[x |-> <<"v">>, kw |-> FALSE, gap |-> <<>>],
         [x |-> <<"=">>, kw |-> FALSE, gap |-> <<>>],
         [x |-> <<"1">>, kw |-> FALSE, gap |-> <<>>]>>],
     [kind |-> "line", pieces |-> <<[x |-> <<"v">>, kw |-> FALSE, gap |-> <<>>],
         [x |-> <<"E", "Q", "U">>, kw |-> FALSE, gap |-> <<" ">>],
         [x |-> <<"1">>, kw |-> FALSE, gap |-> <<" ">>]>>],
     [kind |-> "line", pieces |-> <<[x |-> <<"g", "l", "o", "b", "a", "l">>, kw |-> FALSE, gap |-> <<>>],
         [x |-> <<"a">>, kw |-> FALSE, gap |-> <<" ">>],
         [x |-> <<",">>, kw |-> FALSE, gap |-> <<>>],
         [x |-> <<"b">>, kw |-> FALSE, gap |-> <<>>]>>],
     [kind |-> "line", pieces |-> <<[x |-> <<"x", "d", "e", "f">>, kw |-> FALSE, gap |-> <<>>],
         [x |-> <<"a">>, kw |-> FALSE, gap |-> <<" ">>],
         [x |-> <<",">>, kw |-> FALSE, gap |-> <<>>],
         [x |-> <<"b">>, kw |-> FALSE, gap |-> <<>>],
         [x |-> <<",">>, kw |-> FALSE, gap |-> <<>>],
         [x |-> <<"c">>, kw |-> FALSE, gap |-> <<>>]>>],
     [kind |-> "line", pieces |-> <<[x |-> <<"t">>, kw |-> FALSE, gap |-> <<>>],
         [x |-> <<"g", "r", "o", "u", "p">>, kw |-> FALSE, gap |-> <<" ">>],
         [x |-> <<"b", "s", "s">>, kw |-> FALSE, gap |-> <<" ">>],
         [x |-> <<",">>, kw |-> FALSE, gap |-> <<>>],
         [x |-> <<"w", "o", "r", "d">>, kw |-> FALSE, gap |-> <<>>]>>],
     [kind |-> "line", pieces |-> <<[x |-> <<"t">>, kw |-> FALSE, gap |-> <<>>],
         [x |-> <<"s", "e", "c", "t", "i", "o", "n">>, kw |-> FALSE, gap |-> <<" ">>],
         [x |-> <<"w", "o", "r", "d">>, kw |-> FALSE, gap |-> <<" ">>],
         [x |-> <<",">>, kw |-> FALSE, gap |-> <<>>],
         [x |-> <<"b", "s", "s">>, kw |-> FALSE, gap |-> <<>>]>>],
     [kind |-> "line", pieces |-> <<[x |-> <<"s", "e", "c", "t", "i", "o", "n">>, kw |-> FALSE, gap |-> <<>>],
         [x |-> <<"a">>, kw |-> FALSE, gap |-> <<" ">>],
         [x |-> <<",">>, kw |-> FALSE, gap |-> <<>>],
         [x |-> <<"b">>, kw |-> FALSE, gap |-> <<>>]>>],
     [kind |-> "line", pieces |-> <<[x |-> <<"o", "r", "g">>, kw |-> FALSE, gap |-> <<>>],
         [x |-> <<"$", "1", "0", "0">>, kw |-> FALSE, gap |-> <<" ">>]>>],
     [kind |-> "line", pieces |-> <<[x |-> <<"t">>, kw |-> FALSE, gap |-> <<>>],
         [x |-> <<"g", "r", "o", "u", "p">>, kw |-> FALSE, gap |-> <<" ">>],
         [x |-> <<"o", "r", "g">>, kw |-> FALSE, gap |-> <<" ">>],
         [x |-> <<"(">>, kw |-> FALSE, gap |-> <<>>],
         [x |-> <<"$", "1", "0", "0">>, kw |-> FALSE, gap |-> <<>>],
         [x |-> <<")">>, kw |-> FALSE, gap |-> <<>>]>>],
     [kind |-> "line", pieces |-> <<[x |-> <<"a">>, kw |-> FALSE, gap |-> <<>>],
         [x |-> <<"a", "l", "i", "a", "s">>, kw |-> FALSE, gap |-> <<" ">>],
         [x |-> <<"b">>, kw |-> FALSE, gap |-> <<" ">>]>>],
     [kind |-> "line", pieces |-> <<[x |-> <<"p", "u", "b", "l", "i", "c">>, kw |-> FALSE, gap |-> <<>>],
         [x |-> <<"o", "n">>, kw |-> FALSE, gap |-> <<" ">>]>>],
     [kind |-> "line", pieces |-> <<[x |-> <<"i", "n", "c", "l", "u", "d", "e">>, kw |-> FALSE, gap |-> <<>>],
         [x |-> <<"\"", "a", ".", "o", "b", "j", "\"">>, kw |-> FALSE, gap |-> <<" ">>]>>]}

UpperOf(c) ==
    IF \E i \in 1 .. 26 : LowerLetters[i] = c
    THEN UpperLetters[CHOOSE i \in 1 .. 26 : LowerLetters[i] = c]
    ELSE c

\* a keyword in lower case, in upper case, or with a capital first letter
Recase(x, mode) ==
    [i \in 1 .. Len(x) |->
        IF mode = "upper" \/ (mode = "title" /\ i = 1) THEN UpperOf(x[i]) ELSE to_lowercase(x[i])]

\* The text of the tokens ps: keywords in the letter case `mode`, and the
\* blanks `extra` added before each token whose index is in `at`.
RECURSIVE Render(_, _, _, _, _)
Render(ps, i, mode, extra, at) ==
    IF i > Len(ps) THEN <<>>
    ELSE ps[i].gap \o (IF i \in at THEN extra ELSE <<>>)
            \o (IF ps[i].kw THEN Recase(ps[i].x, mode) ELSE ps[i].x)
            \o Render(ps, i + 1, mode, extra, at)

CaseModes == {<<"lower", "upper">>, <<"lower", "title">>, <<"upper", "title">>}

CasePairs ==
    {[kind |-> t.kind, why |-> "case",
      a |-> Render(t.pieces, 1, m[1], <<>>, {}),
      b |-> Render(t.pieces, 1, m[2], <<>>, {})] : t \in CaseTemplates, m \in CaseModes}

ExtraBlanks == {<<" ">>, <<"\t">>, <<" ", " ">>}

\* blanks added between two adjacent tokens, or between every two
BlankPairsOf(t) ==
    {[kind |-> t.kind, why |-> "blank",
      a |-> Render(t.pieces, 1, "", <<>>, {}),
      b |-> Render(t.pieces, 1, "", e, at)] :
        e \in ExtraBlanks,
        at \in {{i} : i \in 2 .. Len(t.pieces)} \cup {2 .. Len(t.pieces)}}

BlankPairs == UNION {BlankPairsOf(t) : t \in BlankTemplates}

ParseAs(kind, I) == IF kind = "line" THEN parse_line(I) ELSE parse_expression(I)

PairPick ==
    /\ lnkPhase = "idle"
    /\ \E p \in CasePairs \cup BlankPairs : lnkPair' = p
    /\ lnkPhase' = "pair"
    /\ UNCHANGED <<accVars, expVars, codecVars, tsVars, modVars, lnkText, lnkParsed, lnkPrinted, lnkAgain,
                   lnkLine, lnkResult, lnkBoth, lnkLit, lnkNote>>

PairParse ==
    /\ lnkPhase = "pair"
    /\ lnkBoth' = [a |-> ParseAs(lnkPair.kind, lnkPair.a), b |-> ParseAs(lnkPair.kind, lnkPair.b)]
    /\ lnkPhase' = "both"
    /\ UNCHANGED <<accVars, expVars, codecVars, tsVars, modVars, lnkText, lnkParsed, lnkPrinted, lnkAgain,
                   lnkLine, lnkResult, lnkPair, lnkLit, lnkNote>>

\* Integer literals: those that fit 64 bits, with their value in base 16,
\* and those that cannot be converted.
LiteralSamples ==
    {[lit |-> <<"0">>, fits |-> TRUE, value |-> <<0>>],
     [lit |-> <<"1", "2", "3", "4">>, fits |-> TRUE, value |-> <<4, 13, 2>>],
     [lit |-> <<"0", "0", "7">>, fits |-> TRUE, value |-> <<7>>],
     [lit |-> <<"1", "8", "4", "4", "6", "7", "4", "4", "0", "7", "3", "7", "0", "9", "5", "5", "1", "6", "1", "5">>, fits |-> TRUE, value |-> <<15, 15, 15, 15, 15, 15, 15, 15, 15, 15, 15, 15, 15, 15, 15, 15>>],
     [lit |-> <<"4", "2", "9", "4", "9", "6", "7", "2", "9", "6">>, fits |-> TRUE, value |-> <<1, 0, 0, 0, 0, 0, 0, 0, 0>>],
     [lit |-> <<"$", "0">>, fits |-> TRUE, value |-> <<0>>],
     [lit |-> <<"$", "f", "f">>, fits |-> TRUE, value |-> <<15, 15>>],
     [lit |-> <<"$", "8", "0", "0", "1", "0", "0", "0", "0">>, fits |-> TRUE, value |-> <<8, 0, 0, 1, 0, 0, 0, 0>>],
     [lit |-> <<"$", "F", "F", "F", "F", "F", "F", "F", "F", "F", "F", "F", "F", "F", "F", "F", "F">>, fits |-> TRUE, value |-> <<15, 15, 15, 15, 15, 15, 15, 15, 15, 15, 15, 15, 15, 15, 15, 15>>],
     [lit |-> <<"$", "0", "0", "0", "f", "f", "f", "f", "f", "f", "f", "f", "f", "f", "f", "f", "f", "f", "f", "f">>, fits |-> TRUE, value |-> <<15, 15, 15, 15, 15, 15, 15, 15, 15, 15, 15, 15, 15, 15, 15, 15>>],
     [lit |-> <<"%", "0">>, fits |-> TRUE, value |-> <<0>>],
     [lit |-> <<"%", "1", "0", "1">>, fits |-> TRUE, value |-> <<5>>],
     [lit |-> <<"%", "1", "1", "1", "1", "1", "1", "1", "1", "1", "1", "1", "1", "1", "1", "1", "1", "1", "1", "1", "1", "1", "1", "1", "1", "1", "1", "1", "1", "1", "1", "1", "1", "1", "1", "1", "1", "1", "1", "1", "1", "1", "1", "1", "1", "1", "1", "1", "1", "1", "1", "1", "1", "1", "1", "1", "1", "1", "1", "1", "1", "1", "1", "1", "1">>, fits |-> TRUE, value |-> <<15, 15, 15, 15, 15, 15, 15, 15, 15, 15, 15, 15, 15, 15, 15, 15>>],
     [lit |-> <<"%", "0", "1", "1", "1", "1", "1", "1", "1", "1", "1", "1", "1", "1", "1", "1", "1", "1", "1", "1", "1", "1", "1", "1", "1", "1", "1", "1", "1", "1", "1", "1", "1", "1", "1", "1", "1", "1", "1", "1", "1", "1", "1", "1", "1", "1", "1", "1", "1", "1", "1", "1", "1", "1", "1", "1", "1", "1", "1", "1", "1", "1", "1", "1", "1", "1">>, fits |-> TRUE, value |-> <<15, 15, 15, 15, 15, 15, 15, 15, 15, 15, 15, 15, 15, 15, 15, 15>>],
     [lit |-> <<"1", "8", "4", "4", "6", "7", "4", "4", "0", "7", "3", "7", "0", "9", "5", "5", "1", "6", "1", "6">>, fits |-> FALSE, value |-> <<>>],
     [lit |-> <<"9", "9", "9", "9", "9", "9", "9", "9", "9", "9", "9", "9", "9", "9", "9", "9", "9", "9", "9", "9">>, fits |-> FALSE, value |-> <<>>],
     [lit |-> <<"1", "0", "0", "0", "0", "0", "0", "0", "0", "0", "0", "0", "0", "0", "0", "0", "0", "0", "0", "0", "0">>, fits |-> FALSE, value |-> <<>>],
     [lit |-> <<"$", "1", "0", "0", "0", "0", "0", "0", "0", "0", "0", "0", "0", "0", "0", "0", "0", "0">>, fits |-> FALSE, value |-> <<>>],
     [lit |-> <<"$", "F", "F", "F", "F", "F", "F", "F", "F", "F", "F", "F", "F", "F", "F", "F", "F", "F">>, fits |-> FALSE, value |-> <<>>],
     [lit |-> <<"%", "1", "0", "0", "0", "0", "0", "0", "0", "0", "0", "0", "0", "0", "0", "0", "0", "0", "0", "0", "0", "0", "0", "0", "0", "0", "0", "0", "0", "0", "0", "0", "0", "0", "0", "0", "0", "0", "0", "0", "0", "0", "0", "0", "0", "0", "0", "0", "0", "0", "0", "0", "0", "0", "0", "0", "0", "0", "0", "0", "0", "0", "0", "0", "0", "0">>, fits |-> FALSE, value |-> <<>>],
     [lit |-> <<"$">>, fits |-> FALSE, value |-> <<>>],
     [lit |-> <<"%">>, fits |-> FALSE, value |-> <<>>],
     [lit |-> <<"$", "x", "y", "z">>, fits |-> FALSE, value |-> <<>>],
     [lit |-> <<"%", "2">>, fits |-> FALSE, value |-> <<>>]}

\* the places of a line where the grammar takes an integer
LiteralPlaces ==
    {[place |-> "org", before |-> <<"o", "r", "g", " ">>, after |-> <<>>],
     [place |-> "workspace", before |-> <<"w", "o", "r", "k", "s", "p", "a", "c", "e", " ">>, after |-> <<>>],
     [place |-> "unit", before |-> <<"u", "n", "i", "t", " ">>, after |-> <<>>],
     [place |-> "equals", before |-> <<"v", " ", "=", " ">>, after |-> <<>>],
     [place |-> "regs", before |-> <<"r", "e", "g", "s", " ", "p", "c", "=">>, after |-> <<>>],
     [place |-> "sum", before |-> <<"v", " ", "=", " ", "1", " ", "+", " ">>, after |-> <<>>],
     [place |-> "negated", before |-> <<"v", " ", "=", " ", "-">>, after |-> <<>>],
     [place |-> "parens", before |-> <<"v", " ", "=", " ", "(">>, after |-> <<")">>],
     [place |-> "call", before |-> <<"v", " ", "=", " ", "s", "e", "g", "(">>, after |-> <<")">>],
     [place |-> "attr_org", before |-> <<"t", " ", "g", "r", "o", "u", "p", " ", "o", "r", "g", "(">>, after |-> <<")">>],
     [place |-> "attr_obj", before |-> <<"t", " ", "g", "r", "o", "u", "p", " ", "o", "b", "j", "(">>, after |-> <<")">>],
     [place |-> "attr_size", before |-> <<"t", " ", "s", "e", "c", "t", "i", "o", "n", " ", "b", "s", "s", ",", "s", "i", "z", "e", "(">>, after |-> <<")">>]}

LineEnds == {<<>>, <<" ", ";", " ", "n", "o", "t", "e">>}

LiteralPick ==
    /\ lnkPhase = "idle"
    /\ \E l \in LiteralSamples, p \in LiteralPlaces, e \in LineEnds :
          /\ lnkLit' = [lit |-> l.lit, fits |-> l.fits, value |-> l.value, place |-> p.place]
          /\ lnkLine' = p.before \o l.lit \o p.after \o e
    /\ lnkPhase' = "line"
    /\ UNCHANGED <<accVars, expVars, codecVars, tsVars, modVars, lnkText, lnkParsed, lnkPrinted, lnkAgain,
                   lnkResult, lnkPair, lnkBoth, lnkNote>>

\* Lines made of blanks, at most one command, at most one comment, and the
\* text of the next line.
NoteBodies ==
    {<<>>,
     <<"g", "l", "o", "b", "a", "l", " ", "f", "o", "o">>,
     <<"o", "r", "g", " ", "$", "1", "0", "0">>,
     <<"i", "n", "c", "l", "u", "d", "e", " ", "\"", "a", ";", "b", ".", "o", "b", "j", "\"">>,
     <<"v", " ", "=", " ", "a", " ", "+", " ", "1">>,
     <<"v", " ", "=", " ", "-", "x">>,
     <<"t", " ", "g", "r", "o", "u", "p", " ", "b", "s", "s", ",", " ", "w", "o", "r", "d">>,
     <<"t", " ", "g", "r", "o", "u", "p">>,
     <<"p", "u", "b", "l", "i", "c", " ", "o", "n">>,
     <<"s", "e", "c", "t", "i", "o", "n", " ", "a", ",", "b">>,
     <<"x", " ", "a", "l", "i", "a", "s", " ", "y">>,
     <<"r", "e", "g", "s", " ", "p", "c", "=", "E", "N", "T", "R", "Y">>}
\* a comment's text: absent, or what stands after the `;` and its blanks
NoteTexts ==
    {<<>>} \cup {<<t>> : t \in {<<>>, <<"n", "o", "t", "e">>, <<"a", " ", ";", " ", "b">>, <<"x", " ", " ">>, <<"h", "e", "l", "l", "o", ",", " ", "w", "o", "r", "l", "d", "!">>}}
NoteTails ==
    {<<>>,
     <<"\n">>,
     <<"\n", "n", "o", "t", " ", "c", "o", "m", "m", "e", "n", "t", " ", "c", "o", "n", "t", "e", "n", "t">>,
     <<"\n", ";", " ", "n", "e", "x", "t">>}
NoteBlanks == {<<>>, <<" ">>, <<"\t", " ">>}

NoteText(n, sp) == IF n = <<>> THEN <<>> ELSE <<";">> \o sp \o n[1]

NotePick ==
    /\ lnkPhase = "idle"
    /\ \E pre \in {<<>>, <<" ", "\t">>}, b \in NoteBodies, gap \in NoteBlanks,
          sp \in {<<>>, <<" ">>}, n \in NoteTexts, t \in NoteTails :
          /\ lnkNote' = [made |-> TRUE, body |-> b, note |-> n, tail |-> t]
          /\ lnkLine' = pre \o b \o gap \o NoteText(n, sp) \o t
    /\ lnkPhase' = "line"
    /\ UNCHANGED <<accVars, expVars, codecVars, tsVars, modVars, lnkText, lnkParsed, lnkPrinted, lnkAgain,
                   lnkResult, lnkPair, lnkBoth, lnkLit>>

ExprPick ==
    /\ lnkPhase = "idle"
    /\ \E t \in ExpressionTexts : lnkText' = t
    /\ lnkPhase' = "text"
    /\ UNCHANGED <<accVars, expVars, codecVars, tsVars, modVars, lnkParsed, lnkPrinted, lnkAgain, lnkLine, lnkResult,
                   lnkPair, lnkBoth, lnkLit, lnkNote>>

ExprParse ==
    /\ lnkPhase = "text"
    /\ lnkParsed' = parse_expression(lnkText.text)
    /\ lnkPhase' = "parsed"
    /\ UNCHANGED <<accVars, expVars, codecVars, tsVars, modVars, lnkText, lnkPrinted, lnkAgain, lnkLine, lnkResult,
                   lnkPair, lnkBoth, lnkLit, lnkNote>>

\* format!("{}", expr)
ExprPrint ==
    /\ lnkPhase = "parsed"
    /\ lnkParsed.ok
    /\ lnkPrinted' = Expression_fmt(lnkParsed.val)
    /\ lnkPhase' = "printed"
    /\ UNCHANGED <<accVars, expVars, codecVars, tsVars, modVars, lnkText, lnkParsed, lnkAgain, lnkLine, lnkResult,
                   lnkPair, lnkBoth, lnkLit, lnkNote>>

ExprReparse ==
    /\ lnkPhase = "printed"
    /\ lnkAgain' = parse_expression(lnkPrinted)
    /\ lnkPhase' = "reparsed"
    /\ UNCHANGED <<accVars, expVars, codecVars, tsVars, modVars, lnkText, lnkParsed, lnkPrinted, lnkLine, lnkResult,
                   lnkPair, lnkBoth, lnkLit, lnkNote>>

LinePick ==
    /\ lnkPhase = "idle"
    /\ \E l \in Lines : lnkLine' = l
    /\ lnkPhase' = "line"
    /\ UNCHANGED <<accVars, expVars, codecVars, tsVars, modVars, lnkText, lnkParsed, lnkPrinted, lnkAgain, lnkResult,
                   lnkPair, lnkBoth, lnkLit, lnkNote>>

LineParse ==
    /\ lnkPhase = "line"
    /\ lnkResult' = parse_line(lnkLine)
    /\ lnkPhase' = "lineParsed"
    /\ UNCHANGED <<accVars, expVars, codecVars, tsVars, modVars, lnkText, lnkParsed, lnkPrinted, lnkAgain, lnkLine,
                   lnkPair, lnkBoth, lnkLit, lnkNote>>

NextLnk ==
    \/ ExprPick
    \/ ExprParse
    \/ ExprPrint
    \/ ExprReparse
    \/ LinePick
    \/ LineParse
    \/ PairPick
    \/ PairParse
    \/ LiteralPick
    \/ NotePick

SpecLnk == Init /\ [][NextLnk]_vars

----------------------------------------------------------------------------
(* Relocation expressions given to the writer, and crafted Patch sections. *)

MaxChain == 6

LeafPayloads == {0, 4660, 65535}
ConstantPayloads == {<<0, 0>>, <<22136, 4660>>, <<65535, 65535>>}

LeafTrees ==
    {ExprVal(0, n, <<>>) : n \in ConstantPayloads}
        \cup {ExprVal(t, <<v>>, <<>>) : t \in ExprLeafTags \ {0}, v \in LeafPayloads}

\* a few leaves for the operands of a branch: a constant, and variants that
\* no shipped file holds
OperandLeaves ==
    {ExprVal(0, <<22136, 4660>>, <<>>), ExprVal(6, <<4660>>, <<>>),
     ExprVal(18, <<65535>>, <<>>), ExprVal(12, <<0>>, <<>>)}

BranchesOf(S) == {ExprVal(t, <<>>, <<l, r>>) : t \in ExprBranchTags, l \in S, r \in S}

OperandBranches ==
    {ExprVal(44, <<>>, <<ExprVal(6, <<4660>>, <<>>), ExprVal(0, <<0, 0>>, <<>>)>>),
     ExprVal(74, <<>>, <<ExprVal(20, <<1>>, <<>>), ExprVal(8, <<2>>, <<>>)>>)}

ExprTrees ==
    LeafTrees \cup BranchesOf(OperandLeaves)
        \cup BranchesOf(OperandBranches \cup {ExprVal(16, <<7>>, <<>>)})

ExprTails == {<<>>, <<0>>, <<44, 0, 0>>}

RECURSIVE Depth(_)
Depth(e) ==
    IF e.kids = <<>> THEN 1
    ELSE 1 + (IF Depth(e.kids[1]) > Depth(e.kids[2]) THEN Depth(e.kids[1]) ELSE Depth(e.kids[2]))

TreePick ==
    /\ expPhase = "idle"
    /\ \E e \in ExprTrees, t \in ExprTails : expTree' = e /\ expTail' = t
    /\ expPhase' = "tree"
    /\ UNCHANGED <<accVars, codecVars, tsVars, modVars, lnkVars, expBytes, expBack, expChain>>

\* e.write_le(..)
TreeWrite ==
    /\ expPhase = "tree"
    /\ expBytes' = Expression_write(expTree)
    /\ expPhase' = "written"
    /\ UNCHANGED <<accVars, codecVars, tsVars, modVars, lnkVars, expTree, expTail, expBack, expChain>>

\* Expression::read_le on the bytes written and what follows them
TreeRead ==
    /\ expPhase = "written"
    /\ expBack' = Expression_read(expBytes \o expTail)
    /\ expPhase' = "read"
    /\ UNCHANGED <<accVars, codecVars, tsVars, modVars, lnkVars, expTree, expBytes, expTail, expChain>>

\* n branch tags, and the leaves that complete the expression: each branch
\* has a leaf on the left and the next branch on the right
RECURSIVE ChainBytes(_)
ChainBytes(n) ==
    IF n = 0 THEN <<2, 1, 0>> ELSE <<44, 0, 0, 0, 0, 0>> \o ChainBytes(n - 1)

\* a Patch section (tag 10: kind, offset, expression) whose expression is a
\* chain of branch tags
ChainCraft ==
    /\ expPhase = "idle"
    /\ \E n \in 1 .. MaxChain :
          /\ expChain' = n
          /\ expBytes' = <<10, 82, 8, 0>> \o ChainBytes(n)
    /\ expPhase' = "crafted"
    /\ UNCHANGED <<accVars, codecVars, tsVars, modVars, lnkVars, expTree, expTail, expBack>>

\* Section::read_le on the crafted section
ChainRead ==
    /\ expPhase = "crafted"
    /\ expBack' = Section_read(expBytes)
    /\ expPhase' = "decoded"
    /\ UNCHANGED <<accVars, codecVars, tsVars, modVars, lnkVars, expTree, expBytes, expTail, expChain>>

NextExp ==
    \/ TreePick
    \/ TreeWrite
    \/ TreeRead
    \/ ChainCraft
    \/ ChainRead

SpecExp == Init /\ [][NextExp]_vars

----------------------------------------------------------------------------
(* The sections, options and environments the formatter is given, the      *)
(* strings Export::new is given, and the module files whose name and       *)
(* creation word are shown.                                                *)

\* LC_ALL and LANG: not set, or set to one of these.
LocaleTexts == {<<"e", "n", "_", "G", "B", ".", "U", "T", "F", "-", "8">>, <<"e", "n", "_", "U", "S", ".", "U", "T", "F", "-", "8">>, <<"e", "n">>, <<>>}
EnvValues == {Unset} \cup {SetTo(t) : t \in LocaleTexts}
Environments == {EnvVal(lc, lang) : lc \in EnvValues, lang \in EnvValues}

SwitchIds == {0, 31, 61441}
BssSizes == {<<0, 0>>, <<4, 0>>, <<0, 1>>, <<65535, 65535>>}
ShownSections ==
    {SectionVal(0, <<>>)}
        \cup {SectionVal(6, <<FieldVal(<<id>>, <<>>, <<>>)>>) : id \in SwitchIds}
        \cup {SectionVal(8, <<FieldVal(w, <<>>, <<>>)>>) : w \in BssSizes}
DisplayOptions == {OptionsVal(cf, r) : cf \in CodeFormats, r \in BOOLEAN}

\* A section, the options, and the environments of two runs.
SectionPick ==
    /\ accPhase = "idle"
    /\ \E s \in ShownSections, o \in DisplayOptions :
          accSection' = s /\ accOptions' = o
    /\ \E e1 \in Environments, e2 \in Environments : accEnvs' = <<e1, e2>>
    /\ accPhase' = "section"
    /\ UNCHANGED <<codecVars, tsVars, modVars, lnkVars, expVars,
                   accTexts, accName, accExport, accModule, accShown>>

\* The same section formatted with the same options, once in each
\* environment.
SectionFormat ==
    /\ accPhase = "section"
    /\ accTexts' = <<Section_fmt_with_options(accSection, accOptions, accEnvs[1]),
                     Section_fmt_with_options(accSection, accOptions, accEnvs[2])>>
    /\ accPhase' = "formatted"
    /\ UNCHANGED <<codecVars, tsVars, modVars, lnkVars, expVars,
                   accSection, accOptions, accEnvs, accName, accExport, accModule,
                   accShown>>

\* The byte lengths of the strings: none, short, and around 255 and 511.
StringLengths == {0, 1, 2, 254, 255, 256, 257, 300, 511, 512, 513}
\* 'a' .. 'c' in turn, or U+00E9 (C3 A9) over and over
StringOf(n, wide) ==
    [i \in 1 .. n |-> IF wide THEN (IF i % 2 = 1 THEN 195 ELSE 169) ELSE 97 + (i % 3)]
ExportStrings ==
    {StringOf(n, FALSE) : n \in StringLengths}
        \cup {StringOf(n, TRUE) : n \in {k \in StringLengths : k % 2 = 0}}

StringPick ==
    /\ accPhase = "idle"
    /\ \E s \in ExportStrings : accName' = s
    /\ accPhase' = "string"
    /\ UNCHANGED <<codecVars, tsVars, modVars, lnkVars, expVars,
                   accSection, accOptions, accEnvs, accTexts, accExport, accModule,
                   accShown>>

ExportNew ==
    /\ accPhase = "string"
    /\ accExport' = Export_new(accName)
    /\ accPhase' = "export"
    /\ UNCHANGED <<codecVars, tsVars, modVars, lnkVars, expVars,
                   accSection, accOptions, accEnvs, accTexts, accName, accModule,
                   accShown>>

\* The 8 name bytes: blanks only, other ASCII whitespace only, a name and
\* its padding, 8 letters, a blank first, 8 NULs, and a byte that is no UTF-8.
NameFields ==
    {<<32, 32, 32, 32, 32, 32, 32, 32>>,
     <<9, 10, 12, 13, 32, 32, 32, 32>>,
     <<65, 32, 32, 32, 32, 32, 32, 32>>,
     <<65, 66, 67, 68, 69, 70, 71, 72>>,
     <<32, 65, 66, 32, 67, 32, 32, 32>>,
     <<0, 0, 0, 0, 0, 0, 0, 0>>,
     <<65, 255, 195, 169, 32, 32, 32, 32>>}
\* The created word: 0, 15-05-96 16:09:38, 29-02-00 and 29-02-01, a month
\* 13, an hour 24, a minute 60, 31-12-07 23:59:58, and all bits set.
ShownCreated ==
    {<<0, 0>>, <<8367, 33075>>, <<10333, 0>>, <<10845, 0>>, <<8623, 33075>>,
     <<8367, 49152>>, <<8367, 1920>>, <<65439, 49021>>, <<65535, 65535>>}
ShownExports == {<<0>>, <<3, 102, 111, 111, 0>>, <<2, 0, 120, 1, 255, 0>>}
\* The object of the module: "LNK", version 2, NOP; or one cut short.
ObjectFiles == {<<76, 78, 75, 2, 0>>, <<76, 78, 75, 2>>}

FilePick ==
    /\ accPhase = "idle"
    /\ \E nm \in NameFields, c \in ShownCreated, ex \in ShownExports, o \in ObjectFiles :
          accModule' = [bytes |-> nm \o WriteWord(c) \o WriteWord(<<20 + Len(ex), 0>>)
                                     \o WriteWord(<<20 + Len(ex) + Len(o), 0>>) \o ex \o o,
                        read |-> Err(TRUE)]
    /\ accPhase' = "file"
    /\ UNCHANGED <<codecVars, tsVars, modVars, lnkVars, expVars,
                   accSection, accOptions, accEnvs, accTexts, accName, accExport,
                   accShown>>

ModuleRead ==
    /\ accPhase = "file"
    /\ accModule' = [accModule EXCEPT !.read = Module_read(accModule.bytes)]
    /\ accPhase' = "module"
    /\ UNCHANGED <<codecVars, tsVars, modVars, lnkVars, expVars,
                   accSection, accOptions, accEnvs, accTexts, accName, accExport,
                   accShown>>

\* name(), created() and Display of the module the reader gave
ModuleShow ==
    /\ accPhase = "module"
    /\ accModule.read.ok
    /\ accShown' = [name |-> ModuleMetadata_name(accModule.read.val.metadata),
                    created |-> ModuleMetadata_created(accModule.read.val.metadata),
                    text |-> Module_fmt_with_options(accModule.read.val, Options_default)]
    /\ accPhase' = "shown"
    /\ UNCHANGED <<codecVars, tsVars, modVars, lnkVars, expVars,
                   accSection, accOptions, accEnvs, accTexts, accName, accExport,
                   accModule>>

NextAcc ==
    \/ SectionPick
    \/ SectionFormat
    \/ StringPick
    \/ ExportNew
    \/ FilePick
    \/ ModuleRead
    \/ ModuleShow

SpecAcc == Init /\ [][NextAcc]_vars

----------------------------------------------------------------------------
(* Properties of the codec, under Spec *)

Returned == pc # "build"
\* The bytes the reader consumed.
Consumed == Take(bytes, Len(bytes) - Len(result.rest))
TagsOf(ss) == [i \in 1 .. Len(ss) |-> ss[i].tag]
NamesOf(ex) == [j \in 1 .. Len(ex) - 1 |-> ex[j].name]

\* C1: for every well-formed LIB or OBJ file B (the reader accepts it and B
\* ends where the decoded value ends), writing the value read from B gives
\* exactly B, whatever sections and expressions B contains.
C1_WriteOfReadIsInput ==
    (pc = "written" /\ result.ok /\ result.rest = <<>>)
        => out = [ok |-> TRUE, bytes |-> bytes]

\* C2: reading a LIB that ends inside a module record (in the name, the three
\* words, the export list or the header of the embedded OBJ), after at least
\* one complete module, returns an error.
C2_TruncatedRecordIsError ==
    (/\ Returned
     /\ api \in {"read", "read_lib"}
     /\ gen.kind = "LIB"
     /\ gen.flaw \in {"name", "words", "exports", "objhdr"}
     /\ gen.mods >= 1)
        => ~result.ok

\* C3: an OBJ whose fourth byte is not 2 and a LIB whose fourth byte is not 1
\* are rejected.
C3_VersionByteVerified ==
    (/\ Returned
     /\ exists
     /\ Len(bytes) >= 4
     /\ \/ api \in {"read", "read_obj"} /\ Take(bytes, 3) = MAGIC_LNK /\ bytes[4] # 2
        \/ api \in {"read", "read_lib"} /\ Take(bytes, 3) = MAGIC_LIB /\ bytes[4] # 1)
        => ~result.ok

\* C4: the section tags are exactly 0,2,...,20,28,44,...,52,56,58,60,74,...,84
\* and the expression tags exactly the even bytes 0..22 and 32..74: an object
\* file made of sections and expressions of these tags is accepted, and any
\* other byte where a tag is expected makes the whole read fail, whatever
\* follows it.
C4_TagsAcceptedExactly ==
    /\ SectionTags = {0, 2, 4, 6, 8, 10, 12, 14, 16, 18, 20, 28, 44, 46, 48, 50, 52,
                      56, 58, 60, 74, 76, 78, 80, 82, 84}
    /\ ExprTags = {t \in 0 .. 22 : t % 2 = 0} \cup {t \in 32 .. 74 : t % 2 = 0}
    /\ (Returned /\ gen.flaw \in {"badsection", "badexpr"}) => ~result.ok
    /\ (/\ Returned
        /\ gen.kind = "LNK"
        /\ gen.expect = "end"
        /\ gen.flaw = "none"
        /\ api \in {"read", "read_obj"})
           => result.ok /\ TagsOf(result.obj.sections) = gen.tags

C4_BadTagMet ==
    /\ pc = "read"
    /\ api = "read"
    /\ gen.kind = "LIB"
    /\ gen.mods >= 1
    /\ gen.flaw = "badexpr"
    /\ ~result.ok

\* C5: after a successful OBJ read the sections hold exactly one NOP, the last
\* element; the sections before it are those of the file, in order; reading
\* stops there; writing gives magic, version and the sections in order, ending
\* with the NOP byte.
C5_SectionsEndWithOneNOP ==
    (Returned /\ result.ok /\ result.kind = "OBJ") =>
        LET ss == result.obj.sections IN
        /\ ss # <<>>
        /\ ss[Len(ss)].tag = 0
        /\ \A i \in 1 .. Len(ss) - 1 : ss[i].tag # 0
        /\ TagsOf(ss) = gen.tags
        /\ result.obj.version = bytes[4]
        /\ gen.flaw = "trailing" => result.rest \in TrailingSamples
        /\ gen.flaw # "trailing" => result.rest = <<>>
        /\ pc = "written" =>
              /\ out.ok
              /\ Take(out.bytes, 4) = MAGIC_LNK \o <<bytes[4]>>
              /\ out.bytes[Len(out.bytes)] = 0
              /\ (\A i \in 1 .. Len(ss) : ss[i].tag # 84) => out.bytes = Consumed

C5_ObjWritten ==
    /\ pc = "written"
    /\ result.kind = "OBJ"
    /\ Len(result.obj.sections) = 3
    /\ gen.flaw = "trailing"

\* C6: for every module the reader produces, the export list ends with a
\* zero-length entry, which is the only one, and which is written back;
\* exports() returns every other entry, in order.
C6_ExportListTerminated ==
    (Returned /\ result.ok /\ result.kind = "LIB") =>
        /\ Len(result.lib.objs) <= Len(gen.exps)
        /\ \A i \in 1 .. Len(result.lib.objs) :
              LET ex == result.lib.objs[i].metadata.exports IN
              /\ ex # <<>>
              /\ ex[Len(ex)].name_size = 0
              /\ \A j \in 1 .. Len(ex) - 1 : ex[j].name_size # 0
              /\ NamesOf(ex) = gen.exps[i]
              /\ exports(ex) = [j \in 1 .. Len(ex) - 1 |-> Export_name(ex[j])]
              /\ WriteExports(ex) = ExportBytes(gen.exps[i]) \o <<0>>
        /\ (/\ pc = "written"
            /\ \A i \in 1 .. Len(result.lib.objs) :
                  \A k \in 1 .. Len(result.lib.objs[i].obj.sections) :
                      result.lib.objs[i].obj.sections[k].tag # 84)
              => out = [ok |-> TRUE, bytes |-> Consumed]

C6_TwoModulesRead ==
    /\ pc = "written"
    /\ result.kind = "LIB"
    /\ Len(result.lib.objs) = 2
    /\ Len(result.lib.objs[1].metadata.exports) = 3
    /\ result.lib.objs[1].metadata.exports[1].name[1] = 0

\* C7: read decides by the first three bytes: "LIB" is decoded as an archive,
\* "LNK" as an object, anything else, a file of fewer than three bytes too,
\* is an error; a missing file gives "File not found", which nothing else
\* gives.
C7_ReadDispatch ==
    /\ Returned => (result.err = "File not found" <=> ~exists)
    /\ (Returned /\ api = "read" /\ exists) =>
          /\ Len(bytes) < 3 => ~result.ok /\ result.err = "File too small"
          /\ (Len(bytes) >= 3 /\ Take(bytes, 3) = MAGIC_LIB) =>
                /\ result = read_lib(TRUE, bytes)
                /\ result.kind \in {"LIB", "none"}
          /\ (Len(bytes) >= 3 /\ Take(bytes, 3) = MAGIC_LNK) =>
                /\ result = read_obj(TRUE, bytes)
                /\ result.kind \in {"OBJ", "none"}
          /\ (Len(bytes) >= 3 /\ Take(bytes, 3) \notin {MAGIC_LIB, MAGIC_LNK}) =>
                ~result.ok /\ result.err = "Unrecognized magic"

C7_OtherMagicRead ==
    /\ pc = "read"
    /\ api = "read"
    /\ gen.flaw = "magic"
    /\ Len(bytes) = 5
    /\ result.err = "Unrecognized magic"

\* C8: reading a LIB that is the magic and the version byte and nothing else
\* fails.
C8_EmptyArchiveIsError ==
    (/\ Returned
     /\ exists
     /\ api \in {"read", "read_lib"}
     /\ Len(bytes) = 4
     /\ Take(bytes, 3) = MAGIC_LIB)
        => ~result.ok

C8_EmptyArchiveRead ==
    /\ pc = "read"
    /\ api = "read_lib"
    /\ bytes = MAGIC_LIB \o <<1>>
    /\ ~result.ok

\* C9: every LIB value, read or built by LIB::new, has a module list that is
\* not empty; LIB::new gives version 1 and keeps the modules in order, so that
\* LIB::new of the modules of an archive read equals that archive.
C9_LibNeverEmpty ==
    /\ (Returned /\ result.ok /\ result.kind = "LIB") => result.lib.objs # <<>>
    /\ pc = "new" =>
          /\ built.lib.objs # <<>>
          /\ built.lib.version = 1
          /\ built.lib.objs = built.given
          /\ built.given = result.lib.objs => built.lib = result.lib

----------------------------------------------------------------------------
(* Properties of the timestamp, under SpecTS *)

\* C10: for every word w that from_psyq_timestamp accepts, to_psyq_timestamp
\* of the result is w; 0x813320AF is 1996-05-15 16:09:38; the same holds
\* through SystemTime, whatever the local zone.
C10_TimestampRoundTrip ==
    /\ (tsPhase \in {"decoded", "encoded"} /\ tsWord = <<8367, 33075>>) =>
          tsDt = [some |-> TRUE, y |-> 1996, mo |-> 5, d |-> 15, h |-> 16, mi |-> 9,
                  s |-> 38]
    /\ tsPhase \in {"decoded", "encoded"} => (tsDt.some <=> tsSt.some)
    /\ tsPhase = "encoded" => tsEnc = tsWord /\ tsEncSt = tsWord

C10_ExampleEncoded ==
    /\ tsPhase = "encoded"
    /\ tsWord = <<8367, 33075>>
    /\ tsTz # 0
    /\ tsEncSt = <<8367, 33075>>

\* C11: decoding a word fails exactly when a field is out of range: the month
\* (bits 8..5) outside 1..12, the day (bits 4..0) no day of that month in the
\* year 1980 + bits 15..9, the hour (bits 31..27) above 23, the minute (bits
\* 26..21) above 59, the seconds field (bits 20..16) above 29; for any other
\* word it returns those fields, the second being twice the seconds field.
C11_DecodeFailsExactlyOutOfRange ==
    tsPhase \in {"decoded", "encoded"} =>
        LET y == 1980 + (tsWord[1] \div 512)
            m == (tsWord[1] \div 32) % 16
            d == tsWord[1] % 32
            h == tsWord[2] \div 2048
            mi == (tsWord[2] \div 32) % 64
            sf == tsWord[2] % 32
            leap == (y % 4 = 0 /\ y % 100 # 0) \/ y % 400 = 0
            last == IF m = 2 THEN (IF leap THEN 29 ELSE 28)
                    ELSE IF m \in {4, 6, 9, 11} THEN 30 ELSE 31
            inRange == /\ m \in 1 .. 12
                       /\ d \in 1 .. last
                       /\ h <= 23
                       /\ mi <= 59
                       /\ sf <= 29
        IN  /\ tsDt.some <=> inRange
            /\ inRange => tsDt = [some |-> TRUE, y |-> y, mo |-> m, d |-> d, h |-> h,
                                  mi |-> mi, s |-> 2 * sf]

\* 2100-02-29 16:09:38: every field in range but the day, 2100 being no leap
\* year.
C11_NoLeapDayIn2100 ==
    /\ tsPhase = "decoded"
    /\ tsWord = <<61533, 33075>>
    /\ ~tsDt.some

\* C12: to_psyq_timestamp returns a word for every date-time, years before
\* 1980 and after 2107 too: the year less 1980 cut to 7 bits, the month to 4,
\* the day to 5, the hour to 5, the minute to 6, the seconds halved; it never
\* fails and no arithmetic step overflows or underflows.
C12_EncodeIsTotal ==
    tsPhase = "givenEncoded" =>
        /\ ~tsAnyEnc.panic
        /\ ~YearSubtractionUnderflows(tsAny.dt)
        /\ tsAnyEnc.word =
              <<((tsAny.dt.y - 1980) % 128) * 512 + (tsAny.dt.mo % 16) * 32
                    + (tsAny.dt.d % 32),
                (tsAny.dt.h % 32) * 2048 + (tsAny.dt.mi % 64) * 32
                    + (tsAny.dt.s \div 2)>>

----------------------------------------------------------------------------
(* Properties of the module name and of Module::new_from_path, under       *)
(* SpecMod                                                                  *)

\* The clusters of the file name before the first '.' that does not begin it.
StemClusters == (IF modPath.dot THEN <<<<46>>>> ELSE <<>>) \o modPath.body
\* The clusters of the file name before its first '.'.
FirstDotClusters == IF modPath.dot THEN <<>> ELSE modPath.body
UpperByte(b) == IF b >= 97 /\ b <= 122 THEN b - 32 ELSE b
\* The bytes of the longest run of leading clusters that fits in 8 bytes.
FittingBytes(cs) ==
    Flatten(SubSeq(cs, 1,
        CHOOSE k \in 0 .. Len(cs) :
            /\ Len(Flatten(SubSeq(cs, 1, k))) <= 8
            /\ k < Len(cs) => Len(Flatten(SubSeq(cs, 1, k + 1))) > 8))

NumberOf(w) == w[1] + 65536 * w[2]
\* The names of XDEF and XBSS sections whose name is not empty, as stored.
RECURSIVE StoredNames(_)
StoredNames(ss) ==
    IF ss = <<>> THEN <<>>
    ELSE IF ss[1].tag \in {12, 48} /\ ss[1].f[4].d # <<>>
    THEN <<ss[1].f[4].d>> \o StoredNames(Tail(ss))
    ELSE StoredNames(Tail(ss))
RECURSIVE NameBytes(_)
NameBytes(ex) == IF ex = <<>> THEN 0 ELSE 1 + Len(ex[1].name) + NameBytes(Tail(ex))

\* C15: for every module built by Module::new_from_path, the offset field is
\* the distance in the written bytes from the start of the record to the
\* first byte of the OBJ, which is 20 + the sum over the export entries, the
\* terminator included, of (1 + name byte length); and the size field is
\* offset + the byte length of the OBJ file.
C15_OffsetIsDistanceToObj ==
    modPhase = "written" =>
        /\ NumberOf(modBuilt.module.metadata.offset)
              = Len(modOut) - Len(OBJ_write(modBuilt.module.obj))
        /\ NumberOf(modBuilt.module.metadata.offset)
              = 20 + NameBytes(modBuilt.module.metadata.exports)
        /\ NumberOf(modBuilt.module.metadata.size)
              = NumberOf(modBuilt.module.metadata.offset) + Len(modFile.bytes)

\* C16: for every module built by Module::new_from_path, the export names in
\* the metadata, the terminator left out, are the names of the OBJ's XDEF and
\* XBSS sections with a non-empty name, byte for byte, in section order and
\* with duplicates kept.
C16_ExportsAreSectionNames ==
    (modPhase = "built" /\ modBuilt.ok) =>
        NamesOf(modBuilt.module.metadata.exports)
            = StoredNames(modBuilt.module.obj.sections)

----------------------------------------------------------------------------
(* Properties of the linker-script parser, under SpecLnk *)

\* The levels of the grammar, the loosest first.
Levels ==
    <<{"LogOr"}, {"LogAnd"}, {"Or"}, {"Xor"}, {"And"}, {"Eq", "Ne"},
      {"Lt", "Le", "Gt", "Ge"}, {"Shl", "Shr"}, {"Add", "Sub"}, {"Mul", "Div", "Mod"}>>
LevelOf(op) == CHOOSE i \in 1 .. Len(Levels) : op \in Levels[i]
Sym(c) == [k |-> "Symbol", n |-> <<>>, s |-> <<c>>, op |-> "", kids |-> <<>>]
Bin(l, op, r) == [k |-> "Binary", n |-> <<>>, s |-> <<>>, op |-> op, kids |-> <<l, r>>]

\* C17: for every two binary operators a and b, `x a y b z` parses, in full,
\* to Binary(x, a, Binary(y, b, z)) when a is of a looser level than b, and to
\* Binary(Binary(x, a, y), b, z) when a is of a tighter level than b or of
\* the same level.
C17_PrecedenceAndAssociativity ==
    (lnkPhase \in {"parsed", "printed", "reparsed"} /\ lnkText.shape = "triple") =>
        /\ lnkParsed.ok
        /\ lnkParsed.rest = <<>>
        /\ lnkParsed.val =
              IF LevelOf(lnkText.a) < LevelOf(lnkText.b)
              THEN Bin(Sym("x"), lnkText.a, Bin(Sym("y"), lnkText.b, Sym("z")))
              ELSE Bin(Bin(Sym("x"), lnkText.a, Sym("y")), lnkText.b, Sym("z"))

\* `x + y * z` was parsed
C17_AddAndMulParsed ==
    /\ lnkPhase = "parsed"
    /\ lnkText.shape = "triple"
    /\ lnkText.a = "Add" /\ lnkText.b = "Mul"
    /\ lnkParsed.val = Bin(Sym("x"), "Add", Bin(Sym("y"), "Mul", Sym("z")))

\* C18: for every expression tree that parse_expression returns, the text
\* its Display form gives parses again, to a tree equal to it.
C18_PrintedParsesToSameTree ==
    lnkPhase = "reparsed" => (lnkAgain.ok /\ lnkAgain.val = lnkParsed.val)

\* The text that is left holds nothing but blanks.
OnlyBlanks(I) == \A i \in 1 .. Len(I) : I[i] \in {" ", "\t"}

\* C19: parse_line returns Ok only for a line that is, in full, blanks, at
\* most one command and at most one comment after it: an Ok leaves no text
\* but blanks, and an Ok without a command is for a line that holds blanks
\* only before its comment, if it has one.
C19_OkOnlyForWholeLine ==
    (lnkPhase = "lineParsed" /\ lnkResult.ok) =>
        /\ OnlyBlanks(lnkResult.rest)
        /\ lnkResult.val.command = <<>> => OnlyBlanks(Take(lnkLine, SpanUntil(lnkLine, ";")))

\* The identifier a text begins with, after its blanks.
LeadingBlanks(I) == CHOOSE n \in 0 .. Len(I) : OnlyBlanks(Take(I, n)) /\ (n < Len(I) => I[n + 1] \notin {" ", "\t"})
IdentifierLength(I) ==
    IF I = <<>> \/ I[1] \notin SymbolStart THEN 0
    ELSE CHOOSE n \in 1 .. Len(I) :
            /\ \A i \in 2 .. n : I[i] \in SymbolRest
            /\ n < Len(I) => I[n + 1] \notin SymbolRest
CalledIdentifier(I) ==
    /\ IdentifierLength(I) > 0
    /\ IdentifierLength(I) < Len(I)
    /\ I[IdentifierLength(I) + 1] = "("
    /\ \A i \in 1 .. Len(FunctionNames) : Take(I, IdentifierLength(I)) # FunctionNames[i]

\* C20: an expression that begins with an identifier other than the ten
\* function names, with a `(` right after it, is a syntax error.
C20_CallOfPlainSymbolIsError ==
    (lnkPhase = "parsed"
        /\ CalledIdentifier(Drop(lnkText.text, LeadingBlanks(lnkText.text))))
        => ~lnkParsed.ok

\* The two results are the same but for the text left over.
SameResult(r, q) == r.ok = q.ok /\ r.cut = q.cut /\ r.val = q.val

\* C21: a text parses to the same result whatever the letter case of its
\* keywords (command keywords, attribute keywords, function names).
C21_KeywordsInAnyCase ==
    (lnkPhase = "both" /\ lnkPair.why = "case") => SameResult(lnkBoth.a, lnkBoth.b)

\* C22: a text parses to the same result when spaces or tabs are added
\* between two adjacent tokens of it.
C22_BlanksBetweenTokens ==
    (lnkPhase = "both" /\ lnkPair.why = "blank") => SameResult(lnkBoth.a, lnkBoth.b)

Const(n) == [k |-> "Constant", n |-> n, s |-> <<>>, op |-> "", kids |-> <<>>]
\* The command of a line that has the integer n at the given place.
CommandWith(place, n) ==
    CASE place = "org" -> [k |-> "Origin", f |-> <<n>>]
      [] place = "workspace" -> [k |-> "Workspace", f |-> <<n>>]
      [] place = "unit" -> [k |-> "Unit", f |-> <<n>>]
      [] place = "equals" -> [k |-> "Equals", f |-> <<<<"v">>, Const(n)>>]
      [] place = "regs" -> [k |-> "Regs", f |-> <<<<"p", "c">>, Const(n)>>]
      [] place = "sum" -> [k |-> "Equals", f |-> <<<<"v">>, Bin(Const(<<1>>), "Add", Const(n))>>]
      [] place = "negated" ->
            [k |-> "Equals",
             f |-> <<<<"v">>, [k |-> "Unary", n |-> <<>>, s |-> <<>>, op |-> "Neg", kids |-> <<Const(n)>>]>>]
      [] place = "parens" ->
            [k |-> "Equals",
             f |-> <<<<"v">>, [k |-> "Parens", n |-> <<>>, s |-> <<>>, op |-> "", kids |-> <<Const(n)>>]>>]
      [] place = "call" ->
            [k |-> "Equals",
             f |-> <<<<"v">>, [k |-> "Function", n |-> <<>>, s |-> <<"s", "e", "g">>, op |-> "",
                              kids |-> <<Const(n)>>]>>]
      [] place = "attr_org" -> [k |-> "Group", f |-> <<<<"t">>, <<[k |-> "Origin", f |-> <<n>>]>>>>]
      [] place = "attr_obj" -> [k |-> "Group", f |-> <<<<"t">>, <<[k |-> "Obj", f |-> <<<<n>>>>]>>>>]
      [] place = "attr_size" ->
            [k |-> "Section",
             f |-> <<<<"t">>, <<>>, <<[k |-> "BSS", f |-> <<>>], [k |-> "Size", f |-> <<n>>]>>>>]

C24_OneCommandOneComment ==
    (lnkPhase = "lineParsed" /\ lnkNote.made) =>
        /\ lnkResult.ok
        /\ lnkResult.val.command = parse_line(lnkNote.body).val.command
        /\ (lnkNote.body = <<>>) = (lnkResult.val.command = <<>>)
        /\ Len(lnkResult.val.command) <= 1
        /\ lnkResult.val.comment = lnkNote.note
        /\ lnkNote.note # <<>> => lnkResult.rest = lnkNote.tail

\* `global foo; my global` and the next line: the comment is `my global`
C24_CommentUpToNewline ==
    /\ lnkPhase = "lineParsed"
    /\ lnkNote.made
    /\ lnkNote.body # <<>>
    /\ lnkNote.note # <<>>
    /\ Len(lnkNote.tail) > 1
    /\ lnkResult.val.comment = lnkNote.note

----------------------------------------------------------------------------
(* Further properties of the codec, under Spec *)

\* The bytes each section of a section stream was read from.
RECURSIVE SectionSpans(_)
SectionSpansAfter(B, r) ==
    IF ~r.ok THEN <<>>
    ELSE <<Take(B, Len(B) - Len(r.rest))>>
            \o (IF r.val.tag = 0 THEN <<>> ELSE SectionSpans(r.rest))
SectionSpans(B) == SectionSpansAfter(B, Section_read(B))

\* The dimension record of the format: the marker 0, or the marker 1 and
\* the 32-bit value.
DimRecord(v) ==
    IF v.n[1] = 0 THEN <<0, 0>>
    ELSE <<1, 0, v.n[2] % 256, v.n[2] \div 256, v.n[3] % 256, v.n[3] \div 256>>

\* C25: what is written for a Def2 section (tag 84) of an object file that
\* was read holds, after the tag byte and the 14 bytes of section, value,
\* class, type and size, the dimension record as it was read, and is, in
\* all, the bytes the section was read from.
C25_Def2DimensionWritten ==
    (pc = "written" /\ result.kind = "OBJ") =>
        \A i \in 1 .. Len(result.obj.sections) :
            result.obj.sections[i].tag = 84 =>
                /\ SubSeq(Section_write(result.obj.sections[i]), 16,
                          15 + Len(DimRecord(result.obj.sections[i].f[6])))
                      = DimRecord(result.obj.sections[i].f[6])
                /\ Section_write(result.obj.sections[i]) = SectionSpans(Drop(bytes, 4))[i]

----------------------------------------------------------------------------
(* Properties of the expression codec, under SpecExp *)

\* C26: the bytes written for a relocation expression begin with its tag
\* byte, which is followed by the little-endian u32 (tag 0), the
\* little-endian u16 (the other leaves) or what is written for the left and
\* then the right sub-expression; and the reader, given these bytes and any
\* bytes after them, returns the expression and leaves the bytes after them.
C26_ExpressionRoundTrip ==
    (expPhase = "read") =>
        /\ expBytes[1] = expTree.tag
        /\ expTree.tag = 0 =>
              Tail(expBytes) = <<expTree.n[1] % 256, expTree.n[1] \div 256,
                                 expTree.n[2] % 256, expTree.n[2] \div 256>>
        /\ expTree.tag \in ExprLeafTags \ {0} =>
              Tail(expBytes) = <<expTree.n[1] % 256, expTree.n[1] \div 256>>
        /\ expTree.tag \in ExprBranchTags =>
              Tail(expBytes) = Expression_write(expTree.kids[1]) \o Expression_write(expTree.kids[2])
        /\ expBack = Ok(expTree, expTail)

\* a branch of branches whose leaves are Bank and GroupOf was read back
C26_UntestedLeavesRead ==
    /\ expPhase = "read"
    /\ Depth(expTree) = 3
    /\ expTree.kids[1].tag = 44
    /\ expTree.kids[1].kids[1].tag = 6
    /\ expTree.kids[2].tag = 16
    /\ expTail # <<>>
    /\ expBack.ok

\* C27: whatever bound D is tried, decoding a Patch either fails or builds
\* an expression of depth at most D, also when the Patch was crafted with D
\* branch tags in a row.
C27_NestingBounded ==
    (expPhase = "decoded" /\ expBack.ok) => Depth(expBack.val.f[3].e[1]) <= expChain

----------------------------------------------------------------------------
(* Properties of the formatter, of Export::new and of the accessors of a   *)
(* module, under SpecAcc                                                    *)

\* C28: the text written for a BSS section depends on the section and the
\* display options only: two runs that format the same section with the
\* same options write the same text, whatever LC_ALL and LANG are in each.
C28_TextSameInEveryLocale ==
    (accPhase = "formatted" /\ accSection.tag = 8) => accTexts[1] = accTexts[2]

\* C29: for every string, the length field of the entry Export::new returns
\* is the number of name bytes the entry holds, and it is 0 for the empty
\* string only; also for a string of 256 bytes or more.
C29_LengthFieldCountsNameBytes ==
    (accPhase = "export") =>
        /\ accExport.name_size = Len(accExport.name)
        /\ accName # <<>> => accExport.name_size # 0

\* C30: for every module the reader accepts, name() and created() return a
\* string and do not panic, whatever the 8 name bytes and the created word
\* are.
C30_AccessorsNeverPanic ==
    (accPhase = "shown" /\ accModule.read.ok) =>
        ~accShown.name.panic /\ ~accShown.created.panic

====
